---- MODULE Spec2Model ----
(***************************************************************************)
(* Model of the batch orchestration of whisper-transcriber:                *)
(* BatchProcessor.processFiles (src/src/BatchProcessor.js) together with   *)
(* the per-file pipeline BatchProcessor.processFile and the parts of       *)
(* WhisperTranscriber.getAudioInfo / WhisperTranscriber.transcribe that    *)
(* decide whether a job succeeds or fails.                                 *)
(*                                                                         *)
(* Node.js runs the program on one thread: code between two awaits is      *)
(* atomic, and the continuations chained on a settled promise run as       *)
(* microtasks before the next I/O completion is delivered.  One action of  *)
(* the model is therefore one I/O completion together with everything the  *)
(* program does in reaction to it up to the next suspension.               *)
(***************************************************************************)
EXTENDS Integers, Sequences, FiniteSets, TLC

\* Bounds of the model.
MaxFiles == 4
MaxConcurrency == 2

VARIABLES
    files,            \* the list handed to processFiles (paths)
    concurrency,      \* this.concurrency
    continueOnError,  \* this.continueOnError
    pc,               \* where processFiles is suspended, or how it ended
    batches,          \* the local `batches` (groups of job positions)
    batchIndex,       \* number of groups of `batches` already launched
    stage,            \* per job: where its batch.map callback is suspended
    audioInfo,        \* per job: processFile's local audioInfo, while it is live
    caught,           \* per job: the message of the error its catch block caught
    results,          \* the local array `results`
    errors,           \* the local array `errors`
    rejection,        \* the error processFiles failed with, if it did
    returned,         \* the values processFiles returned (at most one)
    reports,          \* the report objects handed to saveReport
    reportFile,       \* successive contents written to transcription_report.json
    summaryFile,      \* successive contents written to summary.txt
    outDir,           \* what this.outputDir is on disk
    root,             \* processDirectory: what the directory argument is on disk
    dirReturned,      \* processDirectory: the value of its early return, if taken
    optConcurrency,   \* constructor: options.concurrency, counted in halves
    optGiven,         \* constructor: whether options has a concurrency at all
    optContinueOnError, \* constructor: options.continueOnError
    cfgContinueOnError, \* constructor: this.continueOnError
    cfgConcurrency,   \* constructor: this.concurrency, counted in halves
    cfgItems,         \* createBatches: the items (job positions)
    cfgI,             \* createBatches: the loop variable i, counted in halves
    cfgBatches,       \* createBatches: the local `batches`
    cfgPc,            \* where the construction and createBatches stand
    ratioResults,     \* the results processFile built, from any probe outcome and time
    ratioSummary,     \* generateSummary: the lines of the results' entries
    avgSpeed,         \* batchExample: the constant avgSpeed
    ratioPc,          \* where the run that computes the ratios stands
    mergeDir,         \* mergeTranscripts: the files of the output directory
    outputFile,       \* mergeTranscripts: its argument
    jsonFiles,        \* mergeTranscripts: the local jsonFiles
    mergeIdx,         \* mergeTranscripts: position of the for loop in jsonFiles
    transcripts,      \* mergeTranscripts: the local transcripts
    mergeReads,       \* mergeTranscripts: the files the current call has read
    mergeOutcomes,    \* mergeTranscripts: how each call so far ended
    mergePc,          \* where mergeTranscripts stands
    txFiles,          \* transcribe: the audioPath of each call
    txSequential,     \* whether a call starts only after the earlier ones ended
    txFormat,         \* transcribe: per call, options.outputFormat
    txStage,          \* transcribe: per call, where it is suspended or how it ended
    txExists,         \* transcribe: per call, what fileExists answered
    txExecs,          \* transcribe: per call, the number of whisper commands run
    txDisk,           \* the artifacts of the output directory
    txOutcome,        \* transcribe: per call, the value returned or the error thrown
    reqFile,          \* POST /api/transcribe: whether req.file is set
    toolProbe,        \* what ffprobe yields for the upload: "info" or "null"
    toolTranscribe,   \* how whisper behaves on the upload
    toolUnlink,       \* whether fs.unlink of the upload succeeds
    ws,               \* the handler's ws: "absent" (undefined), "open" or "closed"
    sent,             \* the messages the handler passed to ws.send, in order
    delivered,        \* the messages that reached the listener, in order
    response,         \* the HTTP responses sent (status and body)
    uploadOnDisk,     \* whether the uploaded file is on disk
    unlinks,          \* the number of fs.unlink calls on the uploaded file
    artifactOnDisk,   \* whether whisper's artifact is in the output directory
    hAudioInfo,       \* the handler's local audioInfo
    hResult,          \* the handler's local result
    handlerPc,        \* where the handler is suspended
    platform,         \* process.platform of the run that enumerates a directory
    tree,             \* the files under the directory given to processDirectory
    pattern,          \* processDirectory: the alternatives of its pattern argument
    globFiles,        \* processDirectory: the local files
    globPc,           \* whether glob has returned
    reqOptions,       \* per concurrent request: the model and language it asks for
    reqPc,            \* per concurrent request: where its handler is suspended
    transcriber,      \* the module-level transcriber: its modelSize and language
    commandArgs,      \* per concurrent request: the model and language of its command
    wsClients,        \* the session registry: per key the socket it maps to, 0 for none
    sockState,        \* per socket: "none", "open" or "closed"
    audioPaths,       \* transcribeBatch: the paths it is given
    seqIndex,         \* transcribeBatch: how many paths the loop has finished
    seqPc,            \* transcribeBatch: "loop", "await" or "returned"
    seqInFlight,      \* transcribeBatch: positions whose transcribe call is pending
    seqResults,       \* transcribeBatch: its results array
    seqErrors,        \* transcribeBatch: its errors array
    seqReturn         \* transcribeBatch: the value it returned, <<>> before

\* The state of processDirectory outside its call of processFiles.
dirVars == <<root, dirReturned>>

\* The state of a BatchProcessor built with any number as options.concurrency,
\* and of its createBatches.  Numbers are counted in halves (3 stands for 1.5)
\* so that non-integer values can be told from integers.
cfgVars == <<optConcurrency, optGiven, optContinueOnError, cfgContinueOnError, cfgConcurrency,
             cfgItems, cfgI, cfgBatches, cfgPc>>

\* The state of a run followed for its speed ratios only.
ratioVars == <<ratioResults, ratioSummary, avgSpeed, ratioPc>>

\* The state of the calls of mergeTranscripts on an output directory.
mergeVars == <<mergeDir, outputFile, jsonFiles, mergeIdx, transcripts, mergeReads,
               mergeOutcomes, mergePc>>

\* The state of the operations other than the batch run, its directory
\* enumeration, its configuration and its speed ratios.
\* The state of calls of WhisperTranscriber.transcribe sharing an output
\* directory.
txVars == <<txFiles, txSequential, txFormat, txStage, txExists, txExecs, txDisk, txOutcome>>

\* The state of one POST /api/transcribe request and of its listener.
relayVars == <<reqFile, toolProbe, toolTranscribe, toolUnlink, ws, sent, delivered, response,
               uploadOnDisk, unlinks, artifactOnDisk, hAudioInfo, hResult, handlerPc>>

\* The state of the enumeration of a directory tree by processDirectory.
globVars == <<platform, tree, pattern, globFiles, globPc>>

\* The state of concurrent requests sharing the module-level transcriber.
sharedVars == <<reqOptions, reqPc, transcriber, commandArgs>>

\* The state of the session registry.
registryVars == <<wsClients, sockState>>

\* The state of a transcribeBatch call.
seqVars == <<audioPaths, seqIndex, seqPc, seqInFlight, seqResults, seqErrors, seqReturn>>

later == <<mergeVars, txVars, relayVars, globVars, sharedVars, registryVars, seqVars>>

\* The state that BatchProcessor.processFiles never touches, and the state
\* that it does not touch once the output directory is made.
beyond == <<dirVars, cfgVars, ratioVars, later>>

outside == <<outDir, beyond>>

vars == <<files, concurrency, continueOnError, pc, batches, batchIndex, stage, audioInfo, caught,
          results, errors, rejection, returned, reports, reportFile, summaryFile, outside>>

Jobs == 1..Len(files)

\* ---------------------------------------------------------------- helpers

Min(a, b) == IF a < b THEN a ELSE b

\* Faulty variant: `to` is taken as inclusive.
SliceInclusive(items, from, to) ==
    [k \in 1..(Min(to + 1, Len(items)) - Min(from, Len(items))) |-> items[from + k]]

\* Array.prototype.slice(from, to) for 0 <= from <= to, 0-based, `to` exclusive.
Slice(items, from, to) ==
    [k \in 1..(Min(to, Len(items)) - Min(from, Len(items))) |-> items[from + k]]

\* createBatches(items, batchSize): the for loop, i = 0, batchSize, 2*batchSize...
RECURSIVE BatchesFrom(_, _, _)
BatchesFrom(items, batchSize, i) ==
    IF i < Len(items)
    THEN <<Slice(items, i, i + batchSize)>> \o BatchesFrom(items, batchSize, i + batchSize)
    ELSE <<>>

\* Faulty variant: each slice is one item too long.
createBatchesOversize(items, batchSize) == BatchesFrom(items, batchSize + 1, 0)

createBatches(items, batchSize) == BatchesFrom(items, batchSize, 0)

\* Jobs are identified by their position in `files`.
JobList == [j \in Jobs |-> j]

\* The group (1-based) job j belongs to.
GroupOf(j) == CHOOSE g \in 1..Len(batches) : \E k \in 1..Len(batches[g]) : batches[g][k] = j

Range(s) == {s[k] : k \in 1..Len(s)}

Terminal(j) == stage[j] \in {"ok", "failed"}
InFlight(j) == stage[j] \in {"probe", "access", "exec", "read"}
Launched(j) == stage[j] # "idle"

NoError == [kind |-> "none", file |-> 0, error |-> "none"]

\* ------------------------------------------------------------------- Init

\* processDirectory is not running: processFiles was called directly.
DirIdle ==
    /\ root = "unused"
    /\ dirReturned = <<>>

\* No BatchProcessor with an unchecked options.concurrency is being built.
CfgIdle ==
    /\ optConcurrency = 0
    /\ optGiven = FALSE
    /\ optContinueOnError = "unused"
    /\ cfgContinueOnError = FALSE
    /\ cfgConcurrency = 0
    /\ cfgItems = <<>>
    /\ cfgI = 0
    /\ cfgBatches = <<>>
    /\ cfgPc = "unused"

\* No run is followed for its speed ratios.
RatioIdle ==
    /\ ratioResults = <<>>
    /\ ratioSummary = <<>>
    /\ avgSpeed = [kind |-> "unset", sum |-> 0, count |-> 0]
    /\ ratioPc = "unused"

\* mergeTranscripts is not called.
MergeIdle ==
    /\ mergeDir = <<>>
    /\ outputFile = "unused"
    /\ jsonFiles = <<>>
    /\ mergeIdx = 0
    /\ transcripts = <<>>
    /\ mergeReads = {}
    /\ mergeOutcomes = <<>>
    /\ mergePc = "unused"

\* transcribe is not followed on its own.
TxIdle ==
    /\ txFiles = <<>>
    /\ txSequential = FALSE
    /\ txFormat = <<>>
    /\ txStage = <<>>
    /\ txExists = <<>>
    /\ txExecs = <<>>
    /\ txDisk = <<>>
    /\ txOutcome = <<>>

\* No request is handled.
RelayIdle ==
    /\ reqFile = FALSE
    /\ toolProbe = "unused"
    /\ toolTranscribe = "unused"
    /\ toolUnlink = FALSE
    /\ ws = "unused"
    /\ sent = <<>>
    /\ delivered = <<>>
    /\ response = <<>>
    /\ uploadOnDisk = FALSE
    /\ unlinks = 0
    /\ artifactOnDisk = FALSE
    /\ hAudioInfo = "unused"
    /\ hResult = "unused"
    /\ handlerPc = "unused"

\* No directory tree is enumerated.
GlobIdle ==
    /\ platform = "unused"
    /\ tree = {}
    /\ pattern = <<>>
    /\ globFiles = <<>>
    /\ globPc = "unused"

\* No concurrent requests are followed.
SharedIdle ==
    /\ reqOptions = <<>>
    /\ reqPc = <<>>
    /\ transcriber = [modelSize |-> "unused", language |-> "unused"]
    /\ commandArgs = <<>>

\* No socket is followed.
RegistryIdle ==
    /\ wsClients = <<>>
    /\ sockState = <<>>

\* transcribeBatch is not called.
SeqIdle ==
    /\ audioPaths = <<>>
    /\ seqIndex = 0
    /\ seqPc = "unused"
    /\ seqInFlight = {}
    /\ seqResults = <<>>
    /\ seqErrors = <<>>
    /\ seqReturn = <<>>

LaterIdle == MergeIdle /\ TxIdle /\ RelayIdle /\ GlobIdle /\ SharedIdle /\ RegistryIdle /\ SeqIdle

\* What a call of mergeTranscripts leaves alone besides the batch run.
mergeRest == <<dirVars, cfgVars, ratioVars, txVars, relayVars, globVars, sharedVars, registryVars, seqVars>>

MergeRestIdle == DirIdle /\ CfgIdle /\ RatioIdle /\ TxIdle /\ RelayIdle /\ GlobIdle /\ SharedIdle /\ RegistryIdle /\ SeqIdle

\* What a call of transcribe leaves alone besides the batch run.
txRest == <<dirVars, cfgVars, ratioVars, mergeVars, relayVars, globVars, sharedVars, registryVars, seqVars>>

TxRestIdle == DirIdle /\ CfgIdle /\ RatioIdle /\ MergeIdle /\ RelayIdle /\ GlobIdle /\ SharedIdle /\ RegistryIdle /\ SeqIdle

\* What the request handler leaves alone besides the batch run.
relayRest == <<dirVars, cfgVars, ratioVars, mergeVars, txVars, globVars, sharedVars, registryVars, seqVars>>

RelayRestIdle == DirIdle /\ CfgIdle /\ RatioIdle /\ MergeIdle /\ TxIdle /\ GlobIdle /\ SharedIdle /\ RegistryIdle /\ SeqIdle

\* What the enumeration of a tree leaves alone besides the batch run.
globRest == <<dirVars, cfgVars, ratioVars, mergeVars, txVars, relayVars, sharedVars, registryVars, seqVars>>

GlobRestIdle == DirIdle /\ CfgIdle /\ RatioIdle /\ MergeIdle /\ TxIdle /\ RelayIdle /\ SharedIdle /\ RegistryIdle /\ SeqIdle

\* What a request sharing the transcriber leaves alone besides the batch run.
sharedRest == <<dirVars, cfgVars, ratioVars, mergeVars, txVars, relayVars, globVars, registryVars, seqVars>>

SharedRestIdle == DirIdle /\ CfgIdle /\ RatioIdle /\ MergeIdle /\ TxIdle /\ RelayIdle /\ GlobIdle /\ RegistryIdle /\ SeqIdle

\* What a socket of the registry leaves alone besides the batch run.
registryRest == <<dirVars, cfgVars, ratioVars, mergeVars, txVars, relayVars, globVars, sharedVars, seqVars>>

RegistryRestIdle == DirIdle /\ CfgIdle /\ RatioIdle /\ MergeIdle /\ TxIdle /\ RelayIdle /\ GlobIdle /\ SharedIdle /\ SeqIdle

\* What a transcribeBatch call leaves alone besides the batch run.
seqRest == <<dirVars, cfgVars, ratioVars, mergeVars, txVars, relayVars, globVars, sharedVars, registryVars>>

SeqRestIdle == DirIdle /\ CfgIdle /\ RatioIdle /\ MergeIdle /\ TxIdle /\ RelayIdle /\ GlobIdle /\ SharedIdle /\ RegistryIdle

\* this.outputDir before processFiles runs: not there, a directory already, or
\* a path no directory can be made at (a regular file is in the way, or the
\* parent cannot be written).
OutDirStates == {"absent", "exists", "blocked"}

Init ==
    /\ \E n \in 0..MaxFiles : files = [j \in 1..n |-> j]
    /\ concurrency \in 1..MaxConcurrency
    /\ continueOnError \in BOOLEAN
    /\ pc = "mkdir"
    /\ outDir \in OutDirStates
    /\ DirIdle
    /\ CfgIdle
    /\ RatioIdle
    /\ LaterIdle
    /\ batches = <<>>
    /\ batchIndex = 0
    /\ stage = [j \in Jobs |-> "idle"]
    /\ audioInfo = [j \in Jobs |-> "pending"]
    /\ caught = [j \in Jobs |-> "none"]
    /\ results = <<>>
    /\ errors = <<>>
    /\ rejection = NoError
    /\ returned = <<>>
    /\ reports = <<>>
    /\ reportFile = <<>>
    /\ summaryFile = <<>>

\* ------------------------------------------------ the batch.map callbacks

\* The group processFiles is awaiting (the one launched last).
CurrentGroup == IF batchIndex = 0 THEN {} ELSE Range(batches[batchIndex])

\* Faulty variants of the rethrow test: always, never.
RethrowsAlways == TRUE
RethrowsNever == FALSE

\* if (!this.continueOnError) throw error;
Rethrows == ~continueOnError

\* Faulty variant: a callback still waiting for whisper counts as fulfilled, as
\* if the invocation were abandoned after a timeout.
FulfilledOrAbandoned(st, j) ==
    st[j] \in {"ok", "exec"} \/ (st[j] = "failed" /\ ~Rethrows)

\* The promise of job j's callback is fulfilled under stages st: with its
\* result, or with null after a caught error that is not rethrown.
Fulfilled(st, j) == st[j] = "ok" \/ (st[j] = "failed" /\ ~Rethrows)

\* Faulty variant: the await ends as soon as one promise of the group is fulfilled.
PromiseAllAny(st) == \E k \in CurrentGroup : Fulfilled(st, k)

\* Faulty variant: the await is never resumed.
PromiseAllNever(st) == FALSE

\* await Promise.all(batchPromises): fulfilled once every promise of the group is.
PromiseAllFulfilled(st) == \A k \in CurrentGroup : Fulfilled(st, k)

\* The JobResult processFile builds (timing fields are left out).
MakeResult(j) == [file |-> files[j], audioInfo |-> audioInfo[j]]

\* Faulty variant: a fixed message instead of error.message.
MakeErrorGeneric(j, msg) == [file |-> files[j], error |-> "Processing failed"]

\* The errorInfo the catch block builds (the timestamp is left out).
MakeError(j, msg) == [file |-> files[j], error |-> msg]

\* Faulty variants of results.push: the result pushed twice, not pushed.
PushResultTwice(j) == Append(Append(results, MakeResult(j)), MakeResult(j))
PushResultSkipped(j) == results

\* Faulty variant: the result is put in front of the earlier ones.
PushResultFront(j) == <<MakeResult(j)>> \o results

\* results.push(result)
PushResult(j) == Append(results, MakeResult(j))

\* Faulty variant of errors.push: the array is replaced, earlier entries are lost.
PushErrorOverwrites(j, msg) == <<MakeError(j, msg)>>

\* errors.push(errorInfo)
PushError(j, msg) == Append(errors, MakeError(j, msg))

\* Faulty variant: the last rejection of the group is the one the caller gets.
AwaitThrowsLast(j, msg) == [kind |-> "job", file |-> files[j], error |-> msg]

\* What processFiles fails with when job j's callback rethrows: Promise.all
\* rejects with the first rejection, a later one changes nothing.
AwaitThrows(j, msg) ==
    IF pc = "await" THEN [kind |-> "job", file |-> files[j], error |-> msg] ELSE rejection

\* try branch: processFile(file) returned (its locals are gone),
\* results.push(result); return result.
JobSucceeds(j) ==
    /\ stage' = [stage EXCEPT ![j] = "ok"]
    /\ results' = PushResult(j)
    /\ audioInfo' = [audioInfo EXCEPT ![j] = "pending"]
    /\ pc' = IF pc = "await" /\ PromiseAllFulfilled(stage') THEN "loop" ELSE pc
    /\ UNCHANGED <<caught, errors, rejection>>

\* catch branch: errors.push(errorInfo); rethrow unless continueOnError.
JobFails(j, msg) ==
    /\ stage' = [stage EXCEPT ![j] = "failed"]
    /\ caught' = [caught EXCEPT ![j] = msg]
    /\ errors' = PushError(j, msg)
    /\ audioInfo' = [audioInfo EXCEPT ![j] = "pending"]
    /\ IF Rethrows
       THEN \* throw error: Promise.all rejects at the first rejection, the
            \* await in processFiles throws and processFiles fails with it.
            /\ pc' = IF pc = "await" THEN "rejected" ELSE pc
            /\ rejection' = AwaitThrows(j, msg)
       ELSE /\ pc' = IF pc = "await" /\ PromiseAllFulfilled(stage') THEN "loop" ELSE pc
            /\ UNCHANGED rejection
    /\ UNCHANGED results

\* ------------------------------------------------- processFile, per stage

\* Faulty variant: getAudioInfo lets the failure of ffprobe escape.
ProbeDoneThrows(j) ==
    /\ stage[j] = "probe"
    /\ \/ /\ audioInfo' = [audioInfo EXCEPT ![j] = "info"]
          /\ stage' = [stage EXCEPT ![j] = "access"]
          /\ UNCHANGED <<pc, caught, results, errors, rejection>>
       \/ JobFails(j, "ffprobe failed")
    /\ UNCHANGED <<files, concurrency, continueOnError, batches, batchIndex,
                   returned, reports, reportFile, summaryFile, outside>>

\* getAudioInfo completes: the metadata, or null when ffprobe or parsing failed.
ProbeDone(j) ==
    /\ stage[j] = "probe"
    /\ \E info \in {"info", "null"} : audioInfo' = [audioInfo EXCEPT ![j] = info]
    /\ stage' = [stage EXCEPT ![j] = "access"]
    /\ UNCHANGED <<files, concurrency, continueOnError, batches, pc, batchIndex, caught, results,
                   errors, rejection, returned, reports, reportFile, summaryFile>>
    /\ UNCHANGED outside

\* transcribe: fileExists(audioPath) completes; a missing file throws.
AccessDone(j) ==
    /\ stage[j] = "access"
    /\ \/ /\ stage' = [stage EXCEPT ![j] = "exec"]
          /\ UNCHANGED <<pc, audioInfo, caught, results, errors, rejection>>
       \/ JobFails(j, "Audio file not found")
    /\ UNCHANGED <<files, concurrency, continueOnError, batches, batchIndex,
                   returned, reports, reportFile, summaryFile>>
    /\ UNCHANGED outside

\* transcribe: the whisper command completes; a failed command throws.
ExecDone(j) ==
    /\ stage[j] = "exec"
    /\ \/ /\ stage' = [stage EXCEPT ![j] = "read"]
          /\ UNCHANGED <<pc, audioInfo, caught, results, errors, rejection>>
       \/ JobFails(j, "Transcription error: exec")
    /\ UNCHANGED <<files, concurrency, continueOnError, batches, batchIndex,
                   returned, reports, reportFile, summaryFile>>
    /\ UNCHANGED outside

\* transcribe: fs.readFile of the JSON artifact and JSON.parse complete, and
\* processFile builds its result.  An unreadable or malformed artifact throws
\* in transcribe; an artifact holding null makes transcript.text throw in
\* processFile.
ReadDone(j) ==
    /\ stage[j] = "read"
    /\ \/ JobSucceeds(j)
       \/ JobFails(j, "Transcription error: read")
       \/ JobFails(j, "TypeError: transcript is null")
    /\ UNCHANGED <<files, concurrency, continueOnError, batches, batchIndex,
                   returned, reports, reportFile, summaryFile>>
    /\ UNCHANGED outside

\* ------------------------------------------------------------ processFiles

\* Faulty variant: mkdir without {recursive: true} fails on an existing directory.
MkdirFulfilsStrict(dir) == dir = "absent"

\* fs.mkdir(dir, {recursive: true}) fulfils when the directory is made or is
\* there already.
MkdirFulfils(dir) == dir \in {"absent", "exists"}

\* await fs.mkdir(this.outputDir, {recursive: true}), then createBatches.
Mkdir ==
    /\ pc = "mkdir"
    /\ IF MkdirFulfils(outDir)
       THEN /\ outDir' = "exists"
            /\ pc' = "loop"
            /\ batches' = createBatches(JobList, concurrency)
            /\ UNCHANGED rejection
       ELSE /\ pc' = "rejected"
            /\ rejection' = [kind |-> "mkdir", file |-> 0, error |-> "mkdir failed"]
            /\ UNCHANGED <<batches, outDir>>
    /\ UNCHANGED <<files, concurrency, continueOnError, batchIndex, stage, audioInfo, caught,
                   results, errors, returned, reports, reportFile, summaryFile>>
    /\ UNCHANGED beyond

\* One iteration of the for loop: batch.map starts every callback of the group,
\* each runs up to its first await (getAudioInfo), then await Promise.all.
LaunchBatch ==
    /\ pc = "loop"
    /\ batchIndex < Len(batches)
    /\ batchIndex' = batchIndex + 1
    /\ stage' = [j \in Jobs |->
                   IF j \in Range(batches[batchIndex + 1]) THEN "probe" ELSE stage[j]]
    /\ pc' = "await"
    /\ UNCHANGED <<files, concurrency, continueOnError, batches, audioInfo, caught, results, errors,
                   rejection, returned, reports, reportFile, summaryFile>>
    /\ UNCHANGED outside

\* Faulty variant: totalFiles counts the groups, not the files.
MakeReportGroups ==
    [results |-> results, errors |-> errors, totalFiles |-> Len(batches),
     successful |-> Len(results), failed |-> Len(errors)]

\* The report object built after the loop.
MakeReport ==
    [results |-> results, errors |-> errors, totalFiles |-> Len(files),
     successful |-> Len(results), failed |-> Len(errors)]

\* The loop is over: the report is built and handed to saveReport.
CallSaveReport ==
    /\ pc = "loop"
    /\ batchIndex >= Len(batches)
    /\ reports' = Append(reports, MakeReport)
    /\ pc' = "writeReport"
    /\ UNCHANGED <<files, concurrency, continueOnError, batches, batchIndex, stage, audioInfo, caught,
                   results, errors, rejection, returned, reportFile, summaryFile>>
    /\ UNCHANGED outside

\* generateSummary(report): the counts, one entry per result, and the
\* FAILED FILES section when there are errors.
generateSummary(report) ==
    [totalFiles |-> report.totalFiles, successful |-> report.successful,
     failed |-> report.failed,
     succeeded |-> [k \in 1..Len(report.results) |-> report.results[k].file],
     failedSection |-> Len(report.errors) > 0,
     failedFiles |-> report.errors]

\* saveReport: fs.writeFile(reportPath, JSON.stringify(report)).
WriteReport ==
    /\ pc = "writeReport"
    /\ \/ /\ reportFile' = Append(reportFile, reports[Len(reports)])
          /\ pc' = "writeSummary"
          /\ UNCHANGED rejection
       \/ /\ pc' = "rejected"
          /\ rejection' = [kind |-> "report", file |-> 0, error |-> "write failed"]
          /\ UNCHANGED reportFile
    /\ UNCHANGED <<files, concurrency, continueOnError, batches, batchIndex, stage, audioInfo, caught,
                   results, errors, returned, reports, summaryFile>>
    /\ UNCHANGED outside

\* saveReport: fs.writeFile(summaryPath, summary); then processFiles returns
\* { results, errors, duration }, duration being the number of seconds elapsed.
WriteSummary ==
    /\ pc = "writeSummary"
    /\ \/ /\ summaryFile' = Append(summaryFile, generateSummary(reports[Len(reports)]))
          /\ returned' = Append(returned, [results |-> results, errors |-> errors,
                                           duration |-> "number"])
          /\ pc' = "returned"
          /\ UNCHANGED rejection
       \/ /\ pc' = "rejected"
          /\ rejection' = [kind |-> "summary", file |-> 0, error |-> "write failed"]
          /\ UNCHANGED <<summaryFile, returned>>
    /\ UNCHANGED <<files, concurrency, continueOnError, batches, batchIndex, stage, audioInfo, caught,
                   results, errors, reports, reportFile>>
    /\ UNCHANGED outside

Next ==
    \/ Mkdir
    \/ LaunchBatch
    \/ CallSaveReport
    \/ WriteReport
    \/ WriteSummary
    \/ \E j \in Jobs : ProbeDone(j)
    \/ \E j \in Jobs : AccessDone(j)
    \/ \E j \in Jobs : ExecDone(j)
    \/ \E j \in Jobs : ReadDone(j)

Spec == Init /\ [][Next]_vars

\* --------------------------------------------------------- processDirectory

\* What the directory argument can be: no such directory, a directory that
\* cannot be read, a directory without a matching file, one with matching files.
Roots == {"missing", "unreadable", "nomatch", "files"}

\* processDirectory(directory) is called on a new BatchProcessor.
InitDir ==
    /\ root \in Roots
    /\ dirReturned = <<>>
    /\ CfgIdle
    /\ RatioIdle
    /\ LaterIdle
    /\ files = <<>>
    /\ concurrency \in 1..MaxConcurrency
    /\ continueOnError \in BOOLEAN
    /\ pc = "glob"
    /\ outDir \in OutDirStates
    /\ batches = <<>>
    /\ batchIndex = 0
    /\ stage = <<>>
    /\ audioInfo = <<>>
    /\ caught = <<>>
    /\ results = <<>>
    /\ errors = <<>>
    /\ rejection = NoError
    /\ returned = <<>>
    /\ reports = <<>>
    /\ reportFile = <<>>
    /\ summaryFile = <<>>

\* Faulty variant: an empty match list is an error.
GlobThrowsOnEmpty ==
    /\ pc = "glob"
    /\ IF root = "files"
       THEN /\ \E n \in 1..MaxFiles :
                 /\ files' = [j \in 1..n |-> j]
                 /\ stage' = [j \in 1..n |-> "idle"]
                 /\ audioInfo' = [j \in 1..n |-> "pending"]
                 /\ caught' = [j \in 1..n |-> "none"]
            /\ pc' = "mkdir"
            /\ UNCHANGED <<dirReturned, rejection>>
       ELSE /\ pc' = "rejected"
            /\ rejection' = [kind |-> "enumeration", file |-> 0, error |-> "No audio files found"]
            /\ UNCHANGED <<files, stage, audioInfo, caught, dirReturned>>
    /\ UNCHANGED <<root, concurrency, continueOnError, batches, batchIndex, results, errors,
                   returned, reports, reportFile, summaryFile, outDir, cfgVars, ratioVars, later>>

\* const files = await glob(searchPattern): glob gives the matching paths, and
\* gives none, without failing, when the directory is missing or unreadable.
\* With no file processDirectory returns { results: [], errors: [] } at once;
\* otherwise it returns this.processFiles(files).
Glob ==
    /\ pc = "glob"
    /\ IF root = "files"
       THEN /\ \E n \in 1..MaxFiles :
                 /\ files' = [j \in 1..n |-> j]
                 /\ stage' = [j \in 1..n |-> "idle"]
                 /\ audioInfo' = [j \in 1..n |-> "pending"]
                 /\ caught' = [j \in 1..n |-> "none"]
            /\ pc' = "mkdir"
            /\ UNCHANGED dirReturned
       ELSE /\ dirReturned' = <<[results |-> <<>>, errors |-> <<>>]>>
            /\ pc' = "returnedEmpty"
            /\ UNCHANGED <<files, stage, audioInfo, caught>>
    /\ UNCHANGED <<root, concurrency, continueOnError, batches, batchIndex, results, errors,
                   rejection, returned, reports, reportFile, summaryFile, outDir, cfgVars, ratioVars, later>>

NextDir ==
    \/ Glob
    \/ Next

SpecDir == InitDir /\ [][NextDir]_vars

\* ------------------------------------ constructor and createBatches, any number

\* Bound on the iterations of the createBatches loop that are followed.
MaxLoop == 6

\* The values of options.concurrency, in halves: -MaxConcurrency, ..., -0.5, 0,
\* 0.5, 1, 1.5, ..., MaxConcurrency.
OptionValues == (0 - 2 * MaxConcurrency)..(2 * MaxConcurrency)

\* processFiles is not running.
BatchIdle ==
    /\ files = <<>>
    /\ concurrency = 1
    /\ continueOnError = TRUE
    /\ pc = "unused"
    /\ batches = <<>>
    /\ batchIndex = 0
    /\ stage = <<>>
    /\ audioInfo = <<>>
    /\ caught = <<>>
    /\ results = <<>>
    /\ errors = <<>>
    /\ rejection = NoError
    /\ returned = <<>>
    /\ reports = <<>>
    /\ reportFile = <<>>
    /\ summaryFile = <<>>
    /\ outDir = "unused"

batchVars == <<files, concurrency, continueOnError, pc, batches, batchIndex, stage, audioInfo,
               caught, results, errors, rejection, returned, reports, reportFile, summaryFile,
               outDir>>

\* The values of options.continueOnError: left out, the two booleans, and a
\* falsy value that is not false.
ContinueOptions == {"undefined", "true", "false", "null"}

\* new BatchProcessor(options) is about to run, options having a concurrency c
\* or none; processFiles will be called with n files.
InitCfg ==
    /\ optGiven \in BOOLEAN
    /\ optConcurrency \in IF optGiven THEN OptionValues ELSE {0}
    /\ optContinueOnError \in ContinueOptions
    /\ cfgContinueOnError = FALSE
    /\ \E n \in 0..MaxFiles : cfgItems = [j \in 1..n |-> j]
    /\ cfgConcurrency = 0
    /\ cfgI = 0
    /\ cfgBatches = <<>>
    /\ cfgPc = "new"
    /\ DirIdle
    /\ BatchIdle
    /\ RatioIdle
    /\ LaterIdle

\* ToIntegerOrInfinity of a number counted in halves: truncation towards zero.
Trunc(h) == IF h >= 0 THEN h \div 2 ELSE 0 - ((0 - h) \div 2)

Max(a, b) == IF a > b THEN a ELSE b

\* The index Array.prototype.slice derives from an argument: truncated, counted
\* from the end when negative, clamped to 0..len.
RelativeIndex(h, len) ==
    IF Trunc(h) < 0 THEN Max(len + Trunc(h), 0) ELSE Min(Trunc(h), len)

\* items.slice(start, end), for any numbers start and end (in halves).
SliceAny(items, start, end) ==
    LET from == RelativeIndex(start, Len(items))
        to == RelativeIndex(end, Len(items))
    IN  [k \in 1..Max(to - from, 0) |-> items[from + k]]

\* Faulty variant: the option is taken for its truthiness.
ContinueOnErrorTruthy(option) == option = "true"

\* options.continueOnError !== false
ContinueOnErrorOf(option) == option # "false"

\* this.concurrency = options.concurrency || 1  (undefined and 0 are falsy);
\* this.continueOnError = options.continueOnError !== false.
CfgConstruct ==
    /\ cfgPc = "new"
    /\ cfgConcurrency' = IF ~optGiven \/ optConcurrency = 0 THEN 2 ELSE optConcurrency
    /\ cfgContinueOnError' = ContinueOnErrorOf(optContinueOnError)
    /\ cfgPc' = "createBatches"
    /\ UNCHANGED <<optConcurrency, optGiven, optContinueOnError, cfgItems, cfgI, cfgBatches, dirVars, batchVars, ratioVars, later>>

\* createBatches: one iteration of the for loop.
CfgLoopStep ==
    /\ cfgPc = "createBatches"
    /\ cfgI < 2 * Len(cfgItems)
    /\ Len(cfgBatches) < MaxLoop
    /\ cfgBatches' = Append(cfgBatches, SliceAny(cfgItems, cfgI, cfgI + cfgConcurrency))
    /\ cfgI' = cfgI + cfgConcurrency
    /\ UNCHANGED <<optConcurrency, optGiven, optContinueOnError, cfgContinueOnError,
                   cfgConcurrency, cfgItems, cfgPc, dirVars, batchVars, ratioVars, later>>

\* createBatches: the loop test fails, the groups are returned and processFiles
\* goes on to launch them.
CfgLoopExit ==
    /\ cfgPc = "createBatches"
    /\ cfgI >= 2 * Len(cfgItems)
    /\ cfgPc' = "launch"
    /\ UNCHANGED <<optConcurrency, optGiven, optContinueOnError, cfgContinueOnError,
                   cfgConcurrency, cfgItems, cfgI, cfgBatches, dirVars, batchVars, ratioVars, later>>

NextCfg ==
    \/ CfgConstruct
    \/ CfgLoopStep
    \/ CfgLoopExit

SpecCfg == InitCfg /\ [][NextCfg]_vars

\* ----------------------------------------------- speed ratio and its average

\* Bound on the number of results of the run followed for its ratios.
MaxResults == 2

\* What getAudioInfo returns: null (ffprobe failed or its output did not
\* parse), or an object whose durationSeconds is parseFloat(info.format.duration):
\* NaN when the field is missing, else a number of seconds.
AudioInfos ==
    {[kind |-> "null", seconds |-> 0], [kind |-> "NaN", seconds |-> 0]}
        \cup {[kind |-> "num", seconds |-> d] : d \in {0, 65, 120}}

\* Date.now() - startTime, in milliseconds.
ProcessingMs == {0, 30000, 60000}

\* (num / den).toFixed(2) for num >= 0 and den > 0, in hundredths; cuts the
\* digits after the second decimal instead of rounding.
toFixed2Truncates(num, den) == (100 * num) \div den

\* (num / den).toFixed(2) for num >= 0 and den > 0, in hundredths: the nearest
\* hundredth, the larger one of two equally near.
toFixed2(num, den) == (200 * num + den) \div (2 * den)

\* (audioInfo.durationSeconds / processingTime).toFixed(2), the string.
QuotientFixed(info, ms) ==
    IF info.kind = "NaN" THEN [kind |-> "NaN", hundredths |-> 0]
    ELSE IF ms = 0 THEN
        IF info.seconds = 0 THEN [kind |-> "NaN", hundredths |-> 0]
        ELSE [kind |-> "Infinity", hundredths |-> 0]
    ELSE [kind |-> "fixed", hundredths |-> toFixed2(1000 * info.seconds, ms)]

\* speedRatio: audioInfo ? (...).toFixed(2) : null
SpeedRatio(info, ms) ==
    IF info.kind = "null" THEN [kind |-> "null", hundredths |-> 0]
    ELSE QuotientFixed(info, ms)

\* The result object of processFile: duration is audioInfo?.durationSeconds.
RatioResult(info, ms) ==
    [duration |-> IF info.kind = "null" THEN [kind |-> "undefined", seconds |-> 0] ELSE info,
     processingMs |-> ms,
     speedRatio |-> SpeedRatio(info, ms)]

\* JavaScript truthiness of a speedRatio: null is falsy, every string toFixed
\* returns is non-empty and so truthy.
Truthy(ratio) == ratio.kind # "null"

\* generateSummary: `Speed Ratio: ${result.speedRatio ? result.speedRatio + 'x' : 'N/A'}`
SpeedRatioLine(result) ==
    IF Truthy(result.speedRatio)
    THEN [text |-> "x", ratio |-> result.speedRatio]
    ELSE [text |-> "N/A", ratio |-> [kind |-> "null", hundredths |-> 0]]

\* generateSummary: the entries of report.results, one per result, in order.
SummaryEntries(res) == [k \in 1..Len(res) |-> SpeedRatioLine(res[k])]

\* parseFloat(r.speedRatio), in hundredths.
ParseFloat(ratio) ==
    IF ratio.kind = "fixed" THEN [kind |-> "num", sum |-> ratio.hundredths]
    ELSE [kind |-> ratio.kind, sum |-> 0]

\* sum + x in floating point, for non-negative operands.
Plus(a, b) ==
    IF a.kind = "NaN" \/ b.kind = "NaN" THEN [kind |-> "NaN", sum |-> 0]
    ELSE IF a.kind = "Infinity" \/ b.kind = "Infinity" THEN [kind |-> "Infinity", sum |-> 0]
    ELSE [kind |-> "num", sum |-> a.sum + b.sum]

\* results.filter(r => r.speedRatio).reduce((sum, r) => sum + parseFloat(r.speedRatio), 0)
RECURSIVE SumOfRatios(_)
SumOfRatios(res) ==
    IF res = <<>> THEN [kind |-> "num", sum |-> 0]
    ELSE LET front == SumOfRatios(SubSeq(res, 1, Len(res) - 1))
             last == res[Len(res)]
         IN  IF Truthy(last.speedRatio) THEN Plus(front, ParseFloat(last.speedRatio))
             ELSE front

\* ... / results.length: the quotient is kept as the sum in hundredths and the
\* divisor.
AverageOf(res) ==
    [kind |-> SumOfRatios(res).kind, sum |-> SumOfRatios(res).sum, count |-> Len(res)]

\* A run about to process its files.
InitRatio ==
    /\ ratioResults = <<>>
    /\ ratioSummary = <<>>
    /\ avgSpeed = [kind |-> "unset", sum |-> 0, count |-> 0]
    /\ ratioPc = "processing"
    /\ DirIdle
    /\ CfgIdle
    /\ BatchIdle
    /\ LaterIdle

\* processFile returns a result and the callback pushes it.
RatioProcessFile ==
    /\ ratioPc = "processing"
    /\ Len(ratioResults) < MaxResults
    /\ \E info \in AudioInfos, ms \in ProcessingMs :
           ratioResults' = Append(ratioResults, RatioResult(info, ms))
    /\ UNCHANGED <<ratioSummary, avgSpeed, ratioPc, dirVars, cfgVars, batchVars, later>>

\* saveReport: generateSummary(report) over the results of the run.
RatioSummarise ==
    /\ ratioPc = "processing"
    /\ ratioSummary' = SummaryEntries(ratioResults)
    /\ ratioPc' = "reported"
    /\ UNCHANGED <<ratioResults, avgSpeed, dirVars, cfgVars, batchVars, later>>

\* batchExample: if (results.length > 0) { const avgSpeed = ... }
RatioAverage ==
    /\ ratioPc = "reported"
    /\ IF Len(ratioResults) > 0
       THEN avgSpeed' = AverageOf(ratioResults)
       ELSE UNCHANGED avgSpeed
    /\ ratioPc' = "averaged"
    /\ UNCHANGED <<ratioResults, ratioSummary, dirVars, cfgVars, batchVars, later>>

NextRatio ==
    \/ RatioProcessFile
    \/ RatioSummarise
    \/ RatioAverage

SpecRatio == InitRatio /\ [][NextRatio]_vars

\* --------------------------------------------------------- mergeTranscripts

\* Bound on the number of successive calls of mergeTranscripts.
MaxMerges == 2

ReportName == "transcription_report.json"

\* The names glob(outputDir/*.json) can return, in the order it returns them.
JsonNames == <<"a.json", "b.json", "merged.json", ReportName>>

\* The names given as outputFile: the default, a name glob matches, and the
\* name of a job's artifact.
OutputFiles == {"merged_transcript.txt", "merged.json", "a.json"}

DirNames == Range(JsonNames) \cup OutputFiles

Absent == [kind |-> "absent", text |-> "", lines |-> <<>>]

\* A job's artifact: a JSON object whose text field is t ("" when the field is
\* empty or missing).
Artifact(t) == [kind |-> "artifact", text |-> t, lines |-> <<>>]

\* transcription_report.json: a JSON object without a text field.
ReportContent == [kind |-> "report", text |-> "", lines |-> <<>>]

\* A file holding merged content: plain text.
Raw(lines) == [kind |-> "raw", text |-> "", lines |-> lines]

\* An output directory as a batch leaves it, and the first call's argument.
InitMerge ==
    /\ \E a \in {Absent, Artifact(""), Artifact("text of a")},
          b \in {Absent, Artifact(""), Artifact("text of b")},
          r \in {Absent, ReportContent} :
           mergeDir = [n \in DirNames |->
                          IF n = "a.json" THEN a
                          ELSE IF n = "b.json" THEN b
                          ELSE IF n = ReportName THEN r
                          ELSE Absent]
    /\ outputFile \in OutputFiles
    /\ jsonFiles = <<>>
    /\ mergeIdx = 0
    /\ transcripts = <<>>
    /\ mergeReads = {}
    /\ mergeOutcomes = <<>>
    /\ mergePc = "start"
    /\ BatchIdle
    /\ MergeRestIdle

Present(n) == mergeDir[n].kind # "absent"

\* const jsonFiles = await glob(path.join(this.outputDir, '*.json'))
MergeGlob ==
    /\ mergePc = "start"
    /\ Len(mergeOutcomes) < MaxMerges
    /\ jsonFiles' = SelectSeq(JsonNames, Present)
    /\ mergeIdx' = 1
    /\ transcripts' = <<>>
    /\ mergeReads' = {}
    /\ mergePc' = "loop"
    /\ UNCHANGED <<mergeDir, outputFile, mergeOutcomes, batchVars, mergeRest>>

\* One iteration of the for loop: the report is skipped, any other file is
\* read and parsed (JSON.parse throws on a file that holds merged text), and
\* its text is pushed when it is truthy.
MergeIteration ==
    /\ mergePc = "loop"
    /\ mergeIdx <= Len(jsonFiles)
    /\ LET file == jsonFiles[mergeIdx]
           data == mergeDir[file]
       IN  IF file = ReportName
           THEN /\ mergeIdx' = mergeIdx + 1
                /\ UNCHANGED <<transcripts, mergeReads, mergeOutcomes, mergePc>>
           ELSE /\ mergeReads' = mergeReads \cup {file}
                /\ IF data.kind = "raw"
                   THEN /\ mergeOutcomes' = Append(mergeOutcomes,
                               [status |-> "SyntaxError", content |-> <<>>])
                        /\ mergePc' = "start"
                        /\ UNCHANGED <<mergeIdx, transcripts>>
                   ELSE /\ transcripts' = IF data.text # ""
                                          THEN Append(transcripts,
                                                   [file |-> file, text |-> data.text])
                                          ELSE transcripts
                        /\ mergeIdx' = mergeIdx + 1
                        /\ UNCHANGED <<mergeOutcomes, mergePc>>
    /\ UNCHANGED <<mergeDir, outputFile, jsonFiles, batchVars, mergeRest>>

\* `[${t.file}]\n${t.text}\n`: a header line and the text.
Block(t) == <<[kind |-> "header", value |-> t.file], [kind |-> "text", value |-> t.text]>>

\* '\n' + '='.repeat(60) + '\n' after a block's final newline: an empty line
\* and the delimiter line.
Separator == <<[kind |-> "blank", value |-> ""], [kind |-> "delimiter", value |-> "="]>>

\* Faulty variant: the blocks follow each other without the separator.
RECURSIVE JoinBare(_)
JoinBare(ts) ==
    IF ts = <<>> THEN <<>> ELSE Block(ts[1]) \o JoinBare(Tail(ts))

\* transcripts.map(...).join(separator), as lines.
RECURSIVE Join(_)
Join(ts) ==
    IF ts = <<>> THEN <<>>
    ELSE IF Len(ts) = 1 THEN Block(ts[1])
    ELSE Block(ts[1]) \o Separator \o Join(Tail(ts))

\* The loop is over: the merged content is written to outputDir/outputFile and
\* the path is returned.
MergeWrite ==
    /\ mergePc = "loop"
    /\ mergeIdx > Len(jsonFiles)
    /\ mergeDir' = [mergeDir EXCEPT ![outputFile] = Raw(Join(transcripts))]
    /\ mergeOutcomes' = Append(mergeOutcomes, [status |-> "ok", content |-> Join(transcripts)])
    /\ mergePc' = "start"
    /\ UNCHANGED <<outputFile, jsonFiles, mergeIdx, transcripts, mergeReads, batchVars, mergeRest>>

NextMerge ==
    \/ MergeGlob
    \/ MergeIteration
    \/ MergeWrite

SpecMerge == InitMerge /\ [][NextMerge]_vars

\* ---------------------------------------------- transcribe and its artifacts

\* Bound on the number of calls of transcribe followed together.
MaxCalls == 2

\* Audio files: two of the same base name and one of another.
Paths == {"a/talk.mp3", "a/talk.wav", "b/news.mp3"}

Formats == {"json", "txt"}

\* path.basename(audioPath, path.extname(audioPath))
BaseName(p) == IF p = "b/news.mp3" THEN "news" ELSE "talk"

\* path.join(outputDir, `${baseName}.${format}`): the file whisper writes and,
\* for json, the file transcribe reads.
ArtifactPath(p, format) == <<BaseName(p), format>>

ArtifactPaths == {ArtifactPath(p, f) : p \in Paths, f \in Formats}

Calls == 1..Len(txFiles)

TxEnded(j) == txStage[j] \in {"returned", "thrown"}

NoOutcome == [kind |-> "none", value |-> "none"]

\* Calls about to be made with distinct audio paths and one output directory,
\* which holds no artifact yet.
InitTx ==
    /\ \E n \in 1..MaxCalls :
           txFiles \in {f \in [1..n -> Paths] : \A i, k \in 1..n : i # k => f[i] # f[k]}
    /\ txSequential \in BOOLEAN
    /\ txFormat = [j \in Calls |-> "unset"]
    /\ txStage = [j \in Calls |-> "idle"]
    /\ txExists = [j \in Calls |-> "unknown"]
    /\ txExecs = [j \in Calls |-> 0]
    /\ txDisk = [a \in ArtifactPaths |-> "none"]
    /\ txOutcome = [j \in Calls |-> NoOutcome]
    /\ BatchIdle
    /\ TxRestIdle

\* transcribe(audioPath, {outputFormat, outputDir}) is called: it suspends in
\* fileExists.  Calls are made in order, and one after the other's end when they
\* belong to successive groups.
TxCall(j) ==
    /\ txStage[j] = "idle"
    /\ \A k \in 1..(j - 1) : IF txSequential THEN TxEnded(k) ELSE txStage[k] # "idle"
    /\ \E f \in Formats : txFormat' = [txFormat EXCEPT ![j] = f]
    /\ txStage' = [txStage EXCEPT ![j] = "access"]
    /\ UNCHANGED <<txFiles, txSequential, txExists, txExecs, txDisk, txOutcome, batchVars, txRest>>

\* Faulty variant: the command is run whatever fileExists answered.
AfterAccessRuns(exists) == "exec"

\* if (!await this.fileExists(audioPath)) throw ...; otherwise the command is
\* built and execAsync is called.
AfterAccess(exists) == IF exists THEN "exec" ELSE "thrown"

TxAccessDone(j) ==
    /\ txStage[j] = "access"
    /\ \E exists \in BOOLEAN :
          /\ txExists' = [txExists EXCEPT ![j] = IF exists THEN "yes" ELSE "no"]
          /\ txStage' = [txStage EXCEPT ![j] = AfterAccess(exists)]
          /\ IF AfterAccess(exists) = "exec"
             THEN /\ txExecs' = [txExecs EXCEPT ![j] = @ + 1]
                  /\ UNCHANGED txOutcome
             ELSE /\ txOutcome' = [txOutcome EXCEPT ![j] =
                                      [kind |-> "error", value |-> "Audio file not found"]]
                  /\ UNCHANGED txExecs
    /\ UNCHANGED <<txFiles, txSequential, txFormat, txDisk, batchVars, txRest>>

\* execAsync settles: whisper exited with 0 after writing its artifact, exited
\* with 0 without writing one (it skips a file it cannot decode), or failed.
TxExecDone(j) ==
    /\ txStage[j] = "exec"
    /\ \/ /\ \E wrote \in BOOLEAN :
                txDisk' = IF wrote
                          THEN [txDisk EXCEPT ![ArtifactPath(txFiles[j], txFormat[j])] = txFiles[j]]
                          ELSE txDisk
          /\ IF txFormat[j] = "json"
             THEN /\ txStage' = [txStage EXCEPT ![j] = "read"]
                  /\ UNCHANGED txOutcome
             ELSE /\ txStage' = [txStage EXCEPT ![j] = "returned"]
                  /\ txOutcome' = [txOutcome EXCEPT ![j] =
                                      [kind |-> "confirmation", value |-> "Transcription saved"]]
       \/ /\ txStage' = [txStage EXCEPT ![j] = "thrown"]
          /\ txOutcome' = [txOutcome EXCEPT ![j] =
                              [kind |-> "error", value |-> "Transcription error: Command failed"]]
          /\ UNCHANGED txDisk
    /\ UNCHANGED <<txFiles, txSequential, txFormat, txExists, txExecs, batchVars, txRest>>

\* fs.readFile(jsonPath) settles and its content is parsed; a missing file is
\* caught and rethrown.
TxReadDone(j) ==
    /\ txStage[j] = "read"
    /\ LET content == txDisk[ArtifactPath(txFiles[j], "json")]
       IN  IF content = "none"
           THEN /\ txStage' = [txStage EXCEPT ![j] = "thrown"]
                /\ txOutcome' = [txOutcome EXCEPT ![j] =
                                    [kind |-> "error", value |-> "Transcription error: ENOENT"]]
           ELSE /\ txStage' = [txStage EXCEPT ![j] = "returned"]
                /\ txOutcome' = [txOutcome EXCEPT ![j] = [kind |-> "parsed", value |-> content]]
    /\ UNCHANGED <<txFiles, txSequential, txFormat, txExists, txExecs, txDisk, batchVars, txRest>>

NextTx ==
    \/ \E j \in Calls : TxCall(j)
    \/ \E j \in Calls : TxAccessDone(j)
    \/ \E j \in Calls : TxExecDone(j)
    \/ \E j \in Calls : TxReadDone(j)

SpecTx == InitTx /\ [][NextTx]_vars

\* ------------------------------------------- POST /api/transcribe and its relay

\* A request arrives.  The upload is there or not; the external tools behave in
\* one way on it: ffprobe yields metadata or fails, whisper writes an artifact
\* that parses to an object or to null, or fails; removing the upload works or
\* not.  wsClients.get(x-session-id) is undefined, an open socket, or a socket
\* that is closed already while its close event is still to come.
InitRelay ==
    /\ reqFile \in BOOLEAN
    /\ toolProbe \in {"info", "null"}
    /\ toolTranscribe \in {"result", "nullResult", "throws"}
    /\ toolUnlink \in BOOLEAN
    /\ ws \in {"absent", "open", "closed"}
    /\ sent = <<>>
    /\ delivered = <<>>
    /\ response = <<>>
    /\ uploadOnDisk = reqFile
    /\ unlinks = 0
    /\ artifactOnDisk = FALSE
    /\ hAudioInfo = "pending"
    /\ hResult = "pending"
    /\ handlerPc = "request"
    /\ BatchIdle
    /\ RelayRestIdle

\* Faulty variant: send throws on a socket that is not open.
SendThrowsWhenClosed(socket) == socket = "closed"

\* ws.send(data) without callback, ws >= 8 (the version that exports
\* WebSocketServer): on a socket that is not open the data is dropped and
\* nothing is thrown.
SendThrows(socket) == FALSE

\* The messages passed to ws.send once `notes` are passed too, in order; the
\* handler calls send only under `if (ws)`.
SentAfter(notes) == IF ws = "absent" THEN sent ELSE sent \o notes

\* The messages that reached the listener once `notes` are sent.
DeliveredAfter(notes) == IF ws = "open" THEN delivered \o notes ELSE delivered

\* Faulty variant: the metadata message is sent whatever getAudioInfo returned.
AudioInfoNoteAlways(info) == <<"audioInfo">>

\* if (ws && audioInfo) ws.send({type: 'audioInfo', ...})
AudioInfoNote(info) == IF info # "null" THEN <<"audioInfo">> ELSE <<>>

\* fs.unlink(path).catch(console.error): the upload is gone afterwards when the
\* removal works.
AfterUnlink == uploadOnDisk /\ ~toolUnlink

\* The catch block, entered with `message`: its unlink is awaited.
EnterCatch(message) ==
    /\ hResult' = message
    /\ handlerPc' = "catchUnlink"

\* The handler runs up to its first await: 400 without a file; otherwise the
\* first status message and the call of getAudioInfo.
HandlerStart ==
    /\ handlerPc = "request"
    /\ IF ~reqFile
       THEN /\ response' = Append(response, [status |-> 400, body |-> "No audio file provided"])
            /\ handlerPc' = "done"
            /\ UNCHANGED <<sent, delivered, hResult>>
       ELSE IF ws # "absent" /\ SendThrows(ws)
       THEN /\ EnterCatch("WebSocket is not open")
            /\ UNCHANGED <<sent, delivered, response>>
       ELSE /\ sent' = SentAfter(<<"status: checking">>)
            /\ delivered' = DeliveredAfter(<<"status: checking">>)
            /\ handlerPc' = "probe"
            /\ UNCHANGED <<response, hResult>>
    /\ UNCHANGED <<reqFile, toolProbe, toolTranscribe, toolUnlink, ws, uploadOnDisk, unlinks,
                   artifactOnDisk, hAudioInfo, batchVars, relayRest>>

\* getAudioInfo returns: the metadata message when there is metadata, the
\* second status message, and the call of transcribe.
ProbeReturns ==
    /\ handlerPc = "probe"
    /\ hAudioInfo' = toolProbe
    /\ IF ws # "absent" /\ SendThrows(ws)
       THEN /\ EnterCatch("WebSocket is not open")
            /\ UNCHANGED <<sent, delivered>>
       ELSE /\ sent' = SentAfter(AudioInfoNote(toolProbe) \o <<"status: starting">>)
            /\ delivered' = DeliveredAfter(AudioInfoNote(toolProbe) \o <<"status: starting">>)
            /\ handlerPc' = "transcribe"
            /\ UNCHANGED hResult
    /\ UNCHANGED <<reqFile, toolProbe, toolTranscribe, toolUnlink, ws, response, uploadOnDisk, unlinks,
                   artifactOnDisk, batchVars, relayRest>>

\* transcribe settles: with the parsed artifact (an object or null), or by
\* throwing into the catch block.
TranscribeSettles ==
    /\ handlerPc = "transcribe"
    /\ IF toolTranscribe = "throws"
       THEN /\ EnterCatch("Transcription error: Command failed")
            /\ UNCHANGED artifactOnDisk
       ELSE /\ hResult' = toolTranscribe
            /\ artifactOnDisk' = TRUE
            /\ handlerPc' = "unlink"
    /\ UNCHANGED <<reqFile, toolProbe, toolTranscribe, toolUnlink, ws, sent, delivered, response,
                   uploadOnDisk, unlinks, hAudioInfo, batchVars, relayRest>>

\* The unlink of the try block settles: res.json(...) reads result.text, which
\* throws on a null result; otherwise the 200 response and the complete message.
UnlinkSettles ==
    /\ handlerPc = "unlink"
    /\ uploadOnDisk' = AfterUnlink
    /\ unlinks' = unlinks + 1
    /\ IF hResult = "nullResult"
       THEN /\ EnterCatch("Cannot read properties of null")
            /\ UNCHANGED <<sent, delivered, response>>
       ELSE /\ response' = Append(response,
                               [status |-> 200, body |-> <<"transcript", hAudioInfo>>])
            /\ IF ws # "absent" /\ SendThrows(ws)
               THEN /\ EnterCatch("WebSocket is not open")
                    /\ UNCHANGED <<sent, delivered>>
               ELSE /\ sent' = SentAfter(<<"complete">>)
                    /\ delivered' = DeliveredAfter(<<"complete">>)
                    /\ handlerPc' = "done"
                    /\ UNCHANGED hResult
    /\ UNCHANGED <<reqFile, toolProbe, toolTranscribe, toolUnlink, ws, artifactOnDisk, hAudioInfo,
                   batchVars, relayRest>>

\* The unlink of the catch block settles: the 500 response with error.message
\* and the error message to the listener.
CatchUnlinkSettles ==
    /\ handlerPc = "catchUnlink"
    /\ uploadOnDisk' = AfterUnlink
    /\ unlinks' = unlinks + 1
    /\ response' = Append(response, [status |-> 500, body |-> hResult])
    /\ IF ws # "absent" /\ SendThrows(ws)
       THEN UNCHANGED <<sent, delivered>>
       ELSE /\ sent' = SentAfter(<<"error">>)
            /\ delivered' = DeliveredAfter(<<"error">>)
    /\ handlerPc' = "done"
    /\ UNCHANGED <<reqFile, toolProbe, toolTranscribe, toolUnlink, ws, artifactOnDisk, hAudioInfo,
                   hResult, batchVars, relayRest>>

\* The listener's socket closes while the request is handled.
ListenerCloses ==
    /\ handlerPc \notin {"unused", "done"}
    /\ ws = "open"
    /\ ws' = "closed"
    /\ UNCHANGED <<reqFile, toolProbe, toolTranscribe, toolUnlink, sent, delivered, response,
                   uploadOnDisk, unlinks, artifactOnDisk, hAudioInfo, hResult, handlerPc, batchVars,
                   relayRest>>

NextRelay ==
    \/ HandlerStart
    \/ ProbeReturns
    \/ TranscribeSettles
    \/ UnlinkSettles
    \/ CatchUnlinkSettles
    \/ ListenerCloses

SpecRelay == InitRelay /\ [][NextRelay]_vars

\* ------------------------------------------- processDirectory: the enumeration

\* The files a tree can hold, in the order glob walks them: lower-case and
\* upper-case extensions of the allow-list, a file in a subdirectory, and a
\* file that is no audio.
TreeFiles ==
    <<[path |-> "a.mp3", ext |-> "mp3"], [path |-> "b.MP3", ext |-> "MP3"],
      [path |-> "notes.txt", ext |-> "txt"], [path |-> "sub/c.wav", ext |-> "wav"],
      [path |-> "sub/d.Mp4", ext |-> "Mp4"]>>

\* String.prototype.toLowerCase on the extensions above.
Lower(ext) ==
    IF ext = "MP3" THEN "mp3" ELSE IF ext = "Mp4" THEN "mp4" ELSE ext

\* The alternatives of the default pattern, *.{mp3,wav,m4a,mp4,mpeg,mpga,webm}.
DefaultPattern == <<"mp3", "wav", "m4a", "mp4", "mpeg", "mpga", "webm">>

\* The pattern arguments followed: the default, and one whose alternatives
\* overlap, *.{mp3,mp3,wav}.
Patterns == {DefaultPattern, <<"mp3", "mp3", "wav">>}

\* glob's nocase option is not given: it defaults to true on macOS and Windows
\* and to false elsewhere.
NoCase == platform \in {"darwin", "win32"}

\* The file matches the alternative *.alt.
MatchesAlternative(file, alt) ==
    IF NoCase THEN Lower(file.ext) = Lower(alt) ELSE file.ext = alt

InTree(file) == file \in tree

MatchesPattern(file) == \E k \in 1..Len(pattern) : MatchesAlternative(file, pattern[k])

\* glob(searchPattern): the walk tests each file of the tree against the
\* alternatives and collects the matching paths in a set, so each path is
\* returned once.
GlobResult == SelectSeq(SelectSeq(TreeFiles, InTree), MatchesPattern)

InitGlob ==
    /\ platform \in {"linux", "darwin", "win32"}
    /\ tree \in SUBSET Range(TreeFiles)
    /\ pattern \in Patterns
    /\ globFiles = <<>>
    /\ globPc = "glob"
    /\ BatchIdle
    /\ GlobRestIdle

\* const files = await glob(searchPattern)
GlobReturns ==
    /\ globPc = "glob"
    /\ globFiles' = GlobResult
    /\ globPc' = IF Len(GlobResult) = 0 THEN "returnedEmpty" ELSE "processFiles"
    /\ UNCHANGED <<platform, tree, pattern, batchVars, globRest>>

NextGlob == GlobReturns

SpecGlob == InitGlob /\ [][NextGlob]_vars

\* ------------------------------- concurrent requests and the shared transcriber

\* Bound on the number of concurrent /api/transcribe requests.
MaxRequests == 2

\* What a request can ask for: req.body.model and req.body.language.
Settings == [modelSize : {"base", "small"}, language : {"auto", "en"}]

NoCommand == [modelSize |-> "none", language |-> "none"]

Requests == 1..Len(reqOptions)

\* The requests have arrived and each handler awaits getAudioInfo; the
\* transcriber is as the module built it.
InitShared ==
    /\ \E n \in 1..MaxRequests : reqOptions \in [1..n -> Settings]
    /\ reqPc = [r \in Requests |-> "probe"]
    /\ transcriber = [modelSize |-> "base", language |-> "auto"]
    /\ commandArgs = [r \in Requests |-> NoCommand]
    /\ BatchIdle
    /\ SharedRestIdle

\* getAudioInfo returns: the handler sets transcriber.modelSize and
\* transcriber.language and calls transcribe, which suspends in fileExists.
SharedProbeReturns(r) ==
    /\ reqPc[r] = "probe"
    /\ transcriber' = reqOptions[r]
    /\ reqPc' = [reqPc EXCEPT ![r] = "access"]
    /\ UNCHANGED <<reqOptions, commandArgs, batchVars, sharedRest>>

\* `--model ${this.modelSize}`, `--language ${this.language}`: read from the
\* transcriber when the command is built.
CommandSettings(r) == transcriber

\* fileExists returns: transcribe builds its command and calls execAsync.
SharedAccessDone(r) ==
    /\ reqPc[r] = "access"
    /\ commandArgs' = [commandArgs EXCEPT ![r] = CommandSettings(r)]
    /\ reqPc' = [reqPc EXCEPT ![r] = "exec"]
    /\ UNCHANGED <<reqOptions, transcriber, batchVars, sharedRest>>

\* The command ends and the handler answers.
SharedExecDone(r) ==
    /\ reqPc[r] = "exec"
    /\ reqPc' = [reqPc EXCEPT ![r] = "done"]
    /\ UNCHANGED <<reqOptions, transcriber, commandArgs, batchVars, sharedRest>>

NextShared ==
    \/ \E r \in Requests : SharedProbeReturns(r)
    \/ \E r \in Requests : SharedAccessDone(r)
    \/ \E r \in Requests : SharedExecDone(r)

SpecShared == InitShared /\ [][NextShared]_vars

\* ------------------------------------------------------- the session registry

\* Bound on the number of sockets that connect.
MaxSockets == 2

\* Bound on the number of session ids a client makes up for a register message.
MaxChosen == 2

Sockets == 1..MaxSockets

\* The keys of wsClients: the ids the server draws with crypto.randomBytes, one
\* per connection, and the ids clients choose.
Keys == ({"generated"} \X Sockets) \cup ({"chosen"} \X (1..MaxChosen))

\* The sessionId the connection handler draws for a socket.
SessionIdOf(i) == <<"generated", i>>

\* Map.prototype.set and Map.prototype.delete.
MapSet(map, key, value) == [map EXCEPT ![key] = value]
MapDelete(map, key) == [map EXCEPT ![key] = 0]

\* const wsClients = new Map(), and nobody has connected.
InitRegistry ==
    /\ wsClients = [k \in Keys |-> 0]
    /\ sockState = [i \in Sockets |-> "none"]
    /\ BatchIdle
    /\ RegistryRestIdle

\* wss.on('connection'): the socket is stored under a fresh sessionId.
Connection(i) ==
    /\ sockState[i] = "none"
    /\ sockState' = [sockState EXCEPT ![i] = "open"]
    /\ wsClients' = MapSet(wsClients, SessionIdOf(i), i)
    /\ UNCHANGED <<batchVars, registryRest>>

\* ws.on('message') with a register message naming a session id: the entry
\* under the connection's own sessionId is deleted, the socket stored under the
\* named id.
Register(i, key) ==
    /\ sockState[i] = "open"
    /\ wsClients' = MapSet(MapDelete(wsClients, SessionIdOf(i)), key, i)
    /\ UNCHANGED <<sockState, batchVars, registryRest>>

\* The key ws.on('close') deletes: the connection's own sessionId.
ClosedKeys(i) == {SessionIdOf(i)}

\* ws.on('close').
Close(i) ==
    /\ sockState[i] = "open"
    /\ sockState' = [sockState EXCEPT ![i] = "closed"]
    /\ wsClients' = [k \in Keys |-> IF k \in ClosedKeys(i) THEN 0 ELSE wsClients[k]]
    /\ UNCHANGED <<batchVars, registryRest>>

NextRegistry ==
    \/ \E i \in Sockets : Connection(i)
    \/ \E i \in Sockets, key \in Keys : Register(i, key)
    \/ \E i \in Sockets : Close(i)

SpecRegistry == InitRegistry /\ [][NextRegistry]_vars

\* ------------------------------------------- WhisperTranscriber.transcribeBatch

\* Bound on the number of paths given to transcribeBatch.
MaxPaths == 3

\* The paths a list is drawn from; a list may name a path twice.
PathNames == {"a.mp3", "b.mp3"}

\* How one transcribe call can end: it returns the parsed JSON with a text, it
\* returns { success, message }, it returns null (the artifact holds the JSON
\* text null), or it throws.
SeqOutcomes == {"text", "message", "null", "throws"}

\* transcribeBatch(audioPaths, options): results and errors are empty and the
\* loop has not started.
InitSeq ==
    /\ \E n \in 0..MaxPaths : audioPaths \in [1..n -> PathNames]
    /\ seqIndex = 0
    /\ seqPc = "loop"
    /\ seqInFlight = {}
    /\ seqResults = <<>>
    /\ seqErrors = <<>>
    /\ seqReturn = <<>>
    /\ BatchIdle
    /\ SeqRestIdle

\* The loop takes the next path and awaits this.transcribe(audioPath, options).
SeqStart ==
    /\ seqPc = "loop"
    /\ seqIndex < Len(audioPaths)
    /\ seqInFlight' = seqInFlight \cup {seqIndex + 1}
    /\ seqPc' = "await"
    /\ UNCHANGED <<audioPaths, seqIndex, seqResults, seqErrors, seqReturn,
                   batchVars, seqRest>>

\* Whether the try block throws: transcribe threw, or result.text is read of null.
SeqThrows(outcome) == outcome \in {"null", "throws"}

\* result.text || result
TranscriptOf(outcome) == IF outcome = "text" THEN "text" ELSE "object"

\* error.message
SeqMessageOf(outcome) ==
    IF outcome = "throws" THEN "Transcription error" ELSE "TypeError"

\* Faulty variant of push: the entry goes to the front.
SeqPushFront(array, entry) == <<entry>> \o array

\* Array.prototype.push
SeqPush(array, entry) == Append(array, entry)

\* Faulty variant of the catch block: the loop ends at the first failure.
AfterCatchBreak(i) == Len(audioPaths)

\* The position the loop goes on with after the catch block.
AfterCatch(i) == i

\* The pending transcribe call settles: the try block pushes to results, or the
\* catch block pushes to errors; the loop goes on.
SeqSettle(outcome) ==
    /\ seqPc = "await"
    /\ seqInFlight' = seqInFlight \ {seqIndex + 1}
    /\ IF SeqThrows(outcome)
       THEN /\ seqErrors' = SeqPush(seqErrors, [file |-> audioPaths[seqIndex + 1],
                                                error |-> SeqMessageOf(outcome)])
            /\ seqIndex' = AfterCatch(seqIndex + 1)
            /\ UNCHANGED seqResults
       ELSE /\ seqResults' = SeqPush(seqResults, [file |-> audioPaths[seqIndex + 1],
                                                  success |-> TRUE,
                                                  transcript |-> TranscriptOf(outcome)])
            /\ seqIndex' = seqIndex + 1
            /\ UNCHANGED seqErrors
    /\ seqPc' = "loop"
    /\ UNCHANGED <<audioPaths, seqReturn, batchVars, seqRest>>

\* return { results, errors }
SeqReturns ==
    /\ seqPc = "loop"
    /\ seqIndex >= Len(audioPaths)
    /\ seqReturn' = [results |-> seqResults, errors |-> seqErrors]
    /\ seqPc' = "returned"
    /\ UNCHANGED <<audioPaths, seqIndex, seqInFlight, seqResults, seqErrors,
                   batchVars, seqRest>>

NextSeq ==
    \/ SeqStart
    \/ \E outcome \in SeqOutcomes : SeqSettle(outcome)
    \/ SeqReturns

SpecSeq == InitSeq /\ [][NextSeq]_vars

\* ----------------------------------------------------- notions of the claims

InFlightJobs == {j \in Jobs : InFlight(j)}

\* How many entries of a sequence of JobResult / JobError are about job j.
EntriesOf(seq, j) == Cardinality({k \in 1..Len(seq) : seq[k].file = files[j]})

Succeeded == {j \in Jobs : stage[j] = "ok"}
Failed == {j \in Jobs : stage[j] = "failed"}

\* processFiles has ended towards its caller with a job's error.
RejectedByJob == pc = "rejected" /\ rejection.kind = "job"

\* processFiles is past its for loop (building, saving or having saved the report).
PastLoop == \/ pc \in {"writeReport", "writeSummary", "returned"}
            \/ pc = "rejected" /\ rejection.kind \in {"report", "summary"}

\* ------------------------------------------------------------------------ C1
\* C1: at every instant the number of jobs launched and not yet terminal is at
\* most the configured concurrency.
C1_ConcurrencyCeiling == Cardinality(InFlightJobs) <= concurrency

\* The ceiling is reached: a full group is in flight while other jobs wait.
C1_Witness ==
    /\ concurrency = 2
    /\ Cardinality(InFlightJobs) = 2
    /\ Cardinality({j \in Jobs : stage[j] = "idle"}) = 2

\* ------------------------------------------------------------------------ C2
\* C2 as stated: when the batch operation has ended (by returning, or by failing
\* with a job's error), every job has exactly one recorded outcome.
C2_ExactlyOneAtEnd ==
    (pc = "returned" \/ RejectedByJob) =>
        \A j \in Jobs : EntriesOf(results, j) + EntriesOf(errors, j) = 1

\* C2 amended: no job ever has more than one recorded outcome, a job has its
\* outcome exactly when it is terminal (a JobResult when it succeeded, a
\* JobError when it failed), and whenever processFiles is past its loop, in
\* particular when it returns, every job has exactly one.
C2_AtMostOneAndOneOnReturn ==
    /\ \A j \in Jobs :
        /\ EntriesOf(results, j) + EntriesOf(errors, j) <= 1
        /\ EntriesOf(results, j) = (IF stage[j] = "ok" THEN 1 ELSE 0)
        /\ EntriesOf(errors, j) = (IF stage[j] = "failed" THEN 1 ELSE 0)
    /\ PastLoop =>
        \A j \in Jobs : EntriesOf(results, j) + EntriesOf(errors, j) = 1

\* A batch with a failure in its first group and successes has returned.
C2_Witness ==
    /\ pc = "returned"
    /\ Len(files) >= 3
    /\ stage[1] = "failed"
    /\ \E j \in Jobs : stage[j] = "ok"

\* ------------------------------------------------------------------------ C3
\* C3: every report handed to saveReport has totalFiles = len(results) +
\* len(errors), successful = len(results) and failed = len(errors).
C3_ReportTotals ==
    \A k \in 1..Len(reports) :
        /\ reports[k].totalFiles = Len(reports[k].results) + Len(reports[k].errors)
        /\ reports[k].successful = Len(reports[k].results)
        /\ reports[k].failed = Len(reports[k].errors)

\* A report with both successes and failures was handed to saveReport.
C3_Witness ==
    /\ Len(reports) = 1
    /\ Len(reports[1].results) >= 2
    /\ Len(reports[1].errors) >= 1

\* ------------------------------------------------------------------------ C4
\* The JobResult of job j is in the results processFiles returned and in the
\* report written to transcription_report.json.
ResultDelivered(j) ==
    /\ Len(returned) = 1
    /\ \E k \in 1..Len(returned[1].results) : returned[1].results[k].file = files[j]
    /\ Len(reportFile) = 1
    /\ \E k \in 1..Len(reportFile[1].results) : reportFile[1].results[k].file = files[j]

C6_AbortStopsLaunching ==
    ~continueOnError =>
        \A j \in Failed : \A k \in Jobs : GroupOf(k) > GroupOf(j) => stage[k] = "idle"

\* A job of the first group failed and its neighbour, still running then, has
\* finished; the second group was never launched.
C6_Witness ==
    /\ ~continueOnError
    /\ concurrency = 2
    /\ Len(files) = 4
    /\ stage[2] = "failed" /\ stage[1] = "ok"
    /\ errors[1].file = files[2] /\ results # <<>>
    /\ stage[3] = "idle" /\ stage[4] = "idle"
    /\ pc = "rejected"

\* ------------------------------------------------------------------------ C7
\* C7 as stated: with continueOnError=false, if a job fails then processFiles
\* fails with that job's error and returns nothing; with continueOnError=true it
\* never fails with a job's error.
C7_FailsWithThatJobsError ==
    /\ ~continueOnError =>
         \A j \in Failed :
            /\ pc = "rejected"
            /\ rejection = [kind |-> "job", file |-> files[j], error |-> caught[j]]
            /\ returned = <<>>
    /\ continueOnError => ~RejectedByJob

\* C7 amended: with continueOnError=false, if a job fails then processFiles
\* fails with the error of the job that failed first (errors[1]) and returns
\* nothing and saves no report; with continueOnError=true it never fails with a
\* job's error.
C7_FailsWithFirstError ==
    /\ (~continueOnError /\ Failed # {}) =>
            /\ pc = "rejected"
            /\ rejection = [kind |-> "job", file |-> errors[1].file,
                            error |-> errors[1].error]
            /\ returned = <<>>
            /\ reports = <<>>
    /\ continueOnError => ~RejectedByJob

\* Both jobs of a group failed, with different errors, under the abort policy.
C7_Witness ==
    /\ ~continueOnError
    /\ concurrency = 2
    /\ Len(files) >= 2
    /\ stage[1] = "failed" /\ stage[2] = "failed"
    /\ caught[1] # caught[2]
    /\ errors[1].file = files[2]
    /\ pc = "rejected"

\* ------------------------------------------------------------------------ C8
\* C8: a job of a later group is launched only when every job of every earlier
\* group is terminal.
C8_GroupBarrier ==
    \A j \in Jobs : \A k \in Jobs :
        (Launched(k) /\ GroupOf(k) > GroupOf(j)) => Terminal(j)

\* The second group is running after the first drained in reverse order of
\* submission with one failure.
C8_Witness ==
    /\ concurrency = 2
    /\ Len(files) >= 4
    /\ stage[1] = "failed" /\ stage[2] = "ok"
    /\ InFlight(3) /\ InFlight(4)

\* ------------------------------------------------------------------------ C9
\* C9: with continueOnError=true no append is lost or duplicated: at every
\* instant there are as many recorded outcomes as terminal jobs, one per
\* terminal job, and when processFiles returns there are exactly N.
C9_NoLostAppend ==
    continueOnError =>
        /\ Len(results) + Len(errors) = Cardinality(Succeeded \cup Failed)
        /\ \A j \in Succeeded \cup Failed :
             EntriesOf(results, j) + EntriesOf(errors, j) = 1
        /\ pc = "returned" =>
             /\ Len(results) + Len(errors) = Len(files)
             /\ Len(returned[1].results) + Len(returned[1].errors) = Len(files)

\* Four jobs, two at a time, one of them failed, the first group completing in
\* reverse order: four outcomes are recorded.
C9_Witness ==
    /\ continueOnError
    /\ concurrency = 2
    /\ pc = "returned"
    /\ Len(files) = 4
    /\ Cardinality(Failed) = 1
    /\ Len(results) = 3 /\ Len(errors) = 1
    /\ results[1].file = files[2] /\ results[2].file = files[1]

\* ----------------------------------------------------------------------- C10
\* C10: with continueOnError=true every report has failed = number of jobs that
\* failed, successful = number that succeeded, and lists each failed job's path
\* with that job's error message.
C10_ReportCounts ==
    continueOnError =>
        \A k \in 1..Len(reports) :
            /\ reports[k].failed = Cardinality(Failed)
            /\ reports[k].successful = Cardinality(Succeeded)
            /\ \A j \in Failed :
                 \E e \in 1..Len(reports[k].errors) :
                     reports[k].errors[e] = [file |-> files[j], error |-> caught[j]]

\* The scenario at MaxFiles jobs: 4 jobs, concurrency 2, job 3 fails: total=4,
\* successful=3, failed=1 and job 3's path is in the errors of the written report.
C10_Witness ==
    /\ continueOnError
    /\ concurrency = 2
    /\ Len(files) = 4
    /\ Failed = {3}
    /\ Len(reportFile) = 1
    /\ reportFile[1].totalFiles = 4
    /\ reportFile[1].successful = 3
    /\ reportFile[1].failed = 1
    /\ reportFile[1].errors[1] = [file |-> files[3], error |-> caught[3]]

\* ----------------------------------------------------------------------- C11
\* The batch run has ended towards its caller other than by an I/O error of
\* mkdir or of the report writes.
RunEnded == pc \in {"returned", "returnedEmpty"} \/ RejectedByJob

\* C11: every batch run writes its report exactly once, at its end, after all
\* launched jobs are terminal, also for an empty batch and for a run aborted
\* by continueOnError=false.
C11_ReportWrittenOnce ==
    /\ Len(reportFile) <= 1
    /\ Len(reportFile) = 1 => \A j \in Jobs : Launched(j) => Terminal(j)
    /\ RunEnded => Len(reportFile) = 1

\* ----------------------------------------------------------------------- C12
\* C12: when a run in which a job failed has ended, the report and the summary
\* list every failed job with its error message, for either setting of
\* continueOnError.
C12_EveryFailureListed ==
    (RunEnded /\ Failed # {}) =>
        /\ Len(reportFile) = 1
        /\ Len(summaryFile) = 1
        /\ \A j \in Failed :
            /\ [file |-> files[j], error |-> caught[j]] \in Range(reportFile[1].errors)
            /\ [file |-> files[j], error |-> caught[j]] \in Range(summaryFile[1].failedFiles)

C14_MissingRootFails ==
    (root \in {"missing", "unreadable"} /\ pc # "glob") =>
        /\ pc = "rejected"
        /\ rejection.kind = "enumeration"
        /\ dirReturned = <<>>

\* ----------------------------------------------------------------------- C16
\* C16: with continueOnError=true an I/O error on a job's artifact or on the
\* report is recorded as a JobError and does not make processFiles fail.
C16_IoErrorsArePerJob ==
    continueOnError =>
        /\ ~(pc = "rejected" /\ rejection.kind \in {"report", "summary"})
        /\ \A j \in Jobs :
             caught[j] = "Transcription error: read" =>
                 [file |-> files[j], error |-> caught[j]] \in Range(errors)

\* ----------------------------------------------------------------------- C17
\* C17: whatever getAudioInfo gives, its completion raises nothing (processFiles
\* and the error list are untouched) and the job goes on to transcribe; and a
\* job whose probe gave null and whose transcription succeeds is recorded as a
\* JobResult without metadata (duration absent).
C17_ProbeFailureHarmless ==
    [][\A j \in Jobs :
         /\ (stage[j] = "probe" /\ stage'[j] # "probe") =>
                /\ stage'[j] = "access"
                /\ pc' = pc /\ rejection' = rejection /\ errors' = errors
         /\ (audioInfo[j] = "null" /\ stage[j] = "read" /\ stage'[j] = "ok") =>
                results' = Append(results, [file |-> files[j], audioInfo |-> "null"])
      ]_vars

\* A job whose probe failed was transcribed and is recorded as a JobResult
\* next to one whose probe succeeded.
C17_Witness ==
    /\ Len(results) >= 2
    /\ results[1].audioInfo = "null"
    /\ results[2].audioInfo = "info"

\* ----------------------------------------------------------------------- C15
\* options.concurrency (in halves) is zero, negative or not an integer.
InvalidConcurrency == optGiven /\ (optConcurrency <= 0 \/ optConcurrency % 2 # 0)

\* C15: with an invalid concurrency no job is ever started (no group of jobs is
\* handed to the launch loop) and createBatches does not iterate without
\* consuming items.
C15_InvalidConcurrencyRejected ==
    InvalidConcurrency =>
        /\ ~(cfgPc = "launch" /\ \E g \in 1..Len(cfgBatches) : Len(cfgBatches[g]) > 0)
        /\ Len(cfgBatches) <= Len(cfgItems)

\* ----------------------------------------------------------------------- C18
\* The duration of a result is a number and its processing time is above 0.
RatioDefinable(result) == result.duration.kind = "num" /\ result.processingMs > 0

\* C18: a result carries a speed ratio exactly when its duration is a number and
\* its processing time is above 0, and then the ratio is a number; otherwise
\* the ratio is absent.
C18_RatioPresentIffDefinable ==
    \A k \in 1..Len(ratioResults) :
        IF RatioDefinable(ratioResults[k])
        THEN ratioResults[k].speedRatio.kind = "fixed"
        ELSE ratioResults[k].speedRatio.kind = "null"

\* ----------------------------------------------------------------------- C19
\* h hundredths is the quotient seconds / (ms / 1000) rounded to 2 decimals.
IsRounded(h, seconds, ms) ==
    /\ 2 * (100000 * seconds - h * ms) <= ms
    /\ 2 * (h * ms - 100000 * seconds) < ms

\* C19: the speed ratio of a result with a known duration (and a processing
\* time above 0, without which there is no quotient) is duration / processing
\* time rounded to 2 decimals, 65 s in 30 s giving 2.17 and 120 s in 60 s giving
\* 2.00; the summary has an entry for the result showing that value; a result
\* without a ratio is shown as not available.
C19_RatioRoundedAndShown ==
    \A k \in 1..Len(ratioResults) :
        LET r == ratioResults[k] IN
        /\ RatioDefinable(r) =>
              /\ r.speedRatio.kind = "fixed"
              /\ IsRounded(r.speedRatio.hundredths, r.duration.seconds, r.processingMs)
              /\ (r.duration.seconds = 65 /\ r.processingMs = 30000)
                    => r.speedRatio.hundredths = 217
              /\ (r.duration.seconds = 120 /\ r.processingMs = 60000)
                    => r.speedRatio.hundredths = 200
              /\ ratioPc \in {"reported", "averaged"} =>
                    /\ Len(ratioSummary) = Len(ratioResults)
                    /\ ratioSummary[k] = [text |-> "x", ratio |-> r.speedRatio]
        /\ (r.speedRatio.kind = "null" /\ ratioPc \in {"reported", "averaged"}) =>
              /\ Len(ratioSummary) = Len(ratioResults)
              /\ ratioSummary[k].text = "N/A"
              /\ ratioSummary[k].ratio.kind = "null"

C19_Witness ==
    /\ ratioPc = "reported"
    /\ Len(ratioResults) = 2
    /\ ratioResults[1].duration = [kind |-> "num", seconds |-> 65]
    /\ ratioResults[1].processingMs = 30000
    /\ ratioSummary[1] = [text |-> "x", ratio |-> [kind |-> "fixed", hundredths |-> 217]]
    /\ ratioResults[2].duration.kind = "undefined"
    /\ ratioSummary[2].text = "N/A"

\* ----------------------------------------------------------------------- C20
\* The results whose ratio is a number, and the sum of these ratios.
DefinedRatios == {k \in 1..Len(ratioResults) : ratioResults[k].speedRatio.kind = "fixed"}

RECURSIVE SumOver(_)
SumOver(ks) ==
    IF ks = {} THEN 0
    ELSE LET k == CHOOSE x \in ks : TRUE
         IN  ratioResults[k].speedRatio.hundredths + SumOver(ks \ {k})

\* C20: once the average is computed over results whose ratios are numbers or
\* absent, at least one being a number, it is the sum of the ratios divided by
\* the number of results that have one.
C20_AverageOverDefined ==
    (/\ ratioPc = "averaged"
     /\ DefinedRatios # {}
     /\ \A k \in 1..Len(ratioResults) : ratioResults[k].speedRatio.kind \in {"fixed", "null"})
    => /\ avgSpeed.kind = "num"
       /\ avgSpeed.sum * Cardinality(DefinedRatios) = SumOver(DefinedRatios) * avgSpeed.count

\* ----------------------------------------------------------------------- C21
\* C21: two successive calls of mergeTranscripts with the same output-file name,
\* nothing else touching the directory, both end successfully and with the
\* same merged content.
C21_MergeIdempotent ==
    Len(mergeOutcomes) >= 2 =>
        /\ mergeOutcomes[1].status = "ok"
        /\ mergeOutcomes[2].status = "ok"
        /\ mergeOutcomes[2].content = mergeOutcomes[1].content

\* ----------------------------------------------------------------------- C22
\* The artifact named n holds a text.
HasText(n) == mergeDir[n].kind = "artifact" /\ mergeDir[n].text # ""

NotReport(n) == n # ReportName

\* C22: a call of mergeTranscripts that writes its output has read every JSON
\* file of the directory except the report, and the content it writes holds,
\* for each artifact with a text, in order, a header line with the artifact's
\* name followed by its text, an empty line and the delimiter line standing
\* between consecutive blocks and nowhere else; the report gives no block.
C22_MergedBlocks ==
    [][(/\ mergePc = "loop"
        /\ mergePc' = "start"
        /\ mergeOutcomes'[Len(mergeOutcomes')].status = "ok")
       => LET named == SelectSeq(SelectSeq(JsonNames, NotReport), HasText)
              n == Len(named)
              content == mergeDir'[outputFile].lines
          IN  /\ mergeReads = {f \in Range(JsonNames) : Present(f)} \ {ReportName}
              /\ mergeDir'[outputFile].kind = "raw"
              /\ mergeOutcomes'[Len(mergeOutcomes')].content = content
              /\ Len(content) = IF n = 0 THEN 0 ELSE 4 * n - 2
              /\ \A i \in 1..n :
                    /\ content[4 * i - 3] = [kind |-> "header", value |-> named[i]]
                    /\ content[4 * i - 2] = [kind |-> "text", value |-> mergeDir[named[i]].text]
                    /\ i < n => /\ content[4 * i - 1].kind = "blank"
                                /\ content[4 * i].kind = "delimiter"
              /\ \A k \in 1..Len(content) : content[k].value # ReportName
      ]_vars

C22_Witness ==
    /\ mergePc = "start"
    /\ Len(mergeOutcomes) = 1
    /\ mergeOutcomes[1].status = "ok"
    /\ Len(mergeOutcomes[1].content) = 6
    /\ mergeDir[ReportName].kind = "report"
    /\ outputFile = "merged_transcript.txt"
    /\ mergeDir[outputFile].kind = "raw"

\* ----------------------------------------------------------------------- C23
\* C23: when the jobs of a batch (distinct paths, json artifacts) have all
\* succeeded, their artifact paths are pairwise distinct and each job's result
\* is the transcript of its own source file.
C23_OwnArtifact ==
    (\A j \in Calls : txFormat[j] = "json" /\ txStage[j] = "returned")
    => /\ \A i, k \in Calls :
              i # k => ArtifactPath(txFiles[i], "json") # ArtifactPath(txFiles[k], "json")
       /\ \A j \in Calls : txOutcome[j] = [kind |-> "parsed", value |-> txFiles[j]]

\* ----------------------------------------------------------------------- C26
ErrorMessages ==
    {"Audio file not found", "Transcription error: Command failed", "Transcription error: ENOENT"}

\* C26: a call of transcribe has no outcome until it ends and then exactly one:
\* returned with the parsed content of its JSON artifact (format json) or with
\* the confirmation (other formats), or thrown with a descriptive message; a
\* call whose audio file does not exist throws without running the command,
\* and a call that returns has run it once.
C26_TranscribeOutcomes ==
    \A j \in Calls :
        /\ ~TxEnded(j) => txOutcome[j] = NoOutcome
        /\ txStage[j] = "returned" =>
              /\ txExecs[j] = 1
              /\ IF txFormat[j] = "json"
                 THEN /\ txOutcome[j].kind = "parsed"
                      /\ txOutcome[j].value \in Paths
                      /\ BaseName(txOutcome[j].value) = BaseName(txFiles[j])
                 ELSE txOutcome[j] = [kind |-> "confirmation", value |-> "Transcription saved"]
        /\ txStage[j] = "thrown" =>
              /\ txOutcome[j].kind = "error"
              /\ txOutcome[j].value \in ErrorMessages
        /\ txExists[j] = "no" =>
              /\ txStage[j] = "thrown"
              /\ txExecs[j] = 0
              /\ txOutcome[j] = [kind |-> "error", value |-> "Audio file not found"]

C26_Witness ==
    /\ Len(txFiles) = 2
    /\ txExists[1] = "no"
    /\ txStage[1] = "thrown"
    /\ txFormat[2] = "json"
    /\ txStage[2] = "returned"
    /\ txOutcome[2].kind = "parsed"

\* ----------------------------------------------------------------------- C24
\* C24: the step that leaves the mkdir of processFiles makes the output
\* directory and launches nothing when the directory was absent or there
\* already, and fails processFiles with the mkdir error when it cannot be made;
\* whenever a job is launched the directory exists; and after a failed mkdir no
\* job is ever launched.
C24_DirectoryFirst ==
    [][/\ (pc = "mkdir" /\ pc' # "mkdir" /\ outDir \in {"absent", "exists"}) =>
              /\ pc' = "loop"
              /\ outDir' = "exists"
              /\ rejection' = NoError
              /\ \A j \in Jobs : ~Launched(j)'
       /\ (pc = "mkdir" /\ pc' # "mkdir" /\ outDir = "blocked") =>
              /\ pc' = "rejected"
              /\ rejection'.kind = "mkdir"
       /\ (\E j \in Jobs : Launched(j)') => outDir' = "exists"
       /\ (pc = "rejected" /\ rejection.kind = "mkdir") =>
              /\ pc' = "rejected"
              /\ rejection' = rejection
       /\ (pc' = "rejected" /\ rejection'.kind = "mkdir") =>
              /\ \A j \in Jobs : ~Launched(j)'
              /\ returned' = <<>>
      ]_vars

C24_Witness ==
    /\ outDir = "exists"
    /\ pc = "await"
    /\ batchIndex = 1
    /\ \E j \in Jobs : InFlight(j)

\* ----------------------------------------------------------------------- C25
\* Job j waits for an external invocation (ffprobe or whisper) to return.
AwaitsExternal(j) == stage[j] \in {"probe", "exec"}

JobStep(k) == ProbeDone(k) \/ AccessDone(k) \/ ExecDone(k) \/ ReadDone(k)

\* C25: for as long as the external invocation of a job has not returned, the
\* job's group is the one last launched, no job of a later group is launched,
\* no report is built or written and processFiles has returned no value, while
\* every other job in flight in the group can still take its next step.
C25_HungJobBlocksBatch ==
    \A j \in Jobs :
        AwaitsExternal(j) =>
            /\ batchIndex = GroupOf(j)
            /\ \A k \in Jobs : (k \notin CurrentGroup /\ k > j) => ~Launched(k)
            /\ reports = <<>>
            /\ reportFile = <<>>
            /\ summaryFile = <<>>
            /\ returned = <<>>
            /\ pc \in {"await", "rejected"}
            /\ \A k \in CurrentGroup : InFlight(k) => ENABLED JobStep(k)

\* The first job of a group of two still waits for whisper while the second
\* has succeeded and its result is recorded.
C25_Witness ==
    /\ concurrency = 2
    /\ Len(files) >= 3
    /\ stage[1] = "exec"
    /\ stage[2] = "ok"
    /\ Len(results) = 1
    /\ results[1].file = files[2]
    /\ pc = "await"

\* ----------------------------------------------------------------------- C30
RECURSIVE Flatten(_)
Flatten(groups) == IF groups = <<>> THEN <<>> ELSE groups[1] \o Flatten(Tail(groups))

\* C30: the groups createBatches returned for the job list and the (positive,
\* integer) concurrency concatenate to the job list, none is empty or larger
\* than the concurrency, all but the last have exactly that size, and an empty
\* list gives no group.
C30_BatchesPartition ==
    pc \notin {"mkdir", "glob", "returnedEmpty"} /\ rejection.kind # "mkdir" =>
        /\ Flatten(batches) = JobList
        /\ \A g \in 1..Len(batches) :
              /\ Len(batches[g]) >= 1
              /\ Len(batches[g]) <= concurrency
              /\ g < Len(batches) => Len(batches[g]) = concurrency
        /\ Len(files) = 0 => batches = <<>>

C30_Witness ==
    /\ pc = "loop"
    /\ concurrency = 2
    /\ batches = <<<<1, 2>>, <<3>>>>

\* ----------------------------------------------------------------------- C27
IsPrefix(p, q) == Len(p) <= Len(q) /\ SubSeq(q, 1, Len(p)) = p

\* The notification sequences of a request whose probe yields `info`.
FullSequences(info) ==
    {<<"status: checking">> \o (IF info = "info" THEN <<"audioInfo">> ELSE <<>>)
         \o <<"status: starting", t>> : t \in {"complete", "error"}}

\* C27: the notifications emitted for a request that carries an upload and has a
\* listener are at every instant the beginning of: probing, the metadata result
\* exactly when there is metadata, starting transcription, one of complete and
\* error; when the handler has ended they are a whole such sequence, so that
\* nothing follows the terminal notification and complete and error never both
\* occur; what reaches the listener is a beginning of what was emitted.
C27_NotificationOrder ==
    (reqFile /\ ws \in {"open", "closed"}) =>
        /\ \E q \in FullSequences(toolProbe) : IsPrefix(sent, q)
        /\ handlerPc = "done" => sent \in FullSequences(toolProbe)
        /\ IsPrefix(delivered, sent)

C27_Witness ==
    /\ handlerPc = "done"
    /\ ws = "open"
    /\ toolProbe = "info"
    /\ delivered = <<"status: checking", "audioInfo", "status: starting", "complete">>

\* ----------------------------------------------------------------------- C28
\* The response the upload and the tools' behaviour call for.
ExpectedResponse ==
    IF ~reqFile THEN [status |-> 400, body |-> "No audio file provided"]
    ELSE IF toolTranscribe = "throws"
        THEN [status |-> 500, body |-> "Transcription error: Command failed"]
    ELSE IF toolTranscribe = "nullResult"
        THEN [status |-> 500, body |-> "Cannot read properties of null"]
    ELSE [status |-> 200, body |-> <<"transcript", toolProbe>>]

\* C28: when the handler has ended, the one response it sent and the files left
\* on disk are those the upload and the tools' behaviour call for, whatever the
\* listener is (absent, open, closed already or closing meanwhile).
C28_ListenerIndependence ==
    handlerPc = "done" =>
        /\ response = <<ExpectedResponse>>
        /\ uploadOnDisk = (reqFile /\ ~toolUnlink)
        /\ artifactOnDisk = (reqFile /\ toolTranscribe # "throws")

C28_Witness ==
    /\ handlerPc = "done"
    /\ ws = "closed"
    /\ Len(sent) > Len(delivered)
    /\ Len(delivered) > 0
    /\ response # <<>>
    /\ response[1].status = 200

\* ----------------------------------------------------------------------- C29
\* C29: the list processDirectory enumerates holds no path twice and holds
\* exactly the files of the tree whose extension, letter case aside, is one the
\* pattern allows.
C29_DistinctAnyCase ==
    globPc \in {"returnedEmpty", "processFiles"} =>
        /\ \A i, k \in 1..Len(globFiles) : i # k => globFiles[i] # globFiles[k]
        /\ Range(globFiles) =
              {f \in tree : \E k \in 1..Len(pattern) : Lower(f.ext) = Lower(pattern[k])}

\* ----------------------------------------------------------------------- C31
\* The entries of seq are in the order of their jobs' groups.
OrderedByGroup(seq) ==
    \A p, q \in 1..Len(seq) : p < q => GroupOf(seq[p].file) <= GroupOf(seq[q].file)

\* C31: the step in which a job becomes terminal appends the job's outcome at
\* the end of results (success) or of errors (failure) and leaves the other
\* array alone, so each array is in completion order; and in each array the
\* outcomes of an earlier group precede those of a later group.
C31_CompletionOrder ==
    [][/\ \A j \in Jobs :
            /\ (InFlight(j) /\ stage'[j] = "ok") =>
                  /\ results' = Append(results, [file |-> files[j], audioInfo |-> audioInfo[j]])
                  /\ errors' = errors
            /\ (InFlight(j) /\ stage'[j] = "failed") =>
                  /\ errors' = Append(errors, [file |-> files[j], error |-> caught'[j]])
                  /\ results' = results
       /\ OrderedByGroup(results)'
       /\ OrderedByGroup(errors)'
      ]_vars

\* Two jobs of one group ended in the reverse of their submission order, and
\* a job of the next group after them.
C31_Witness ==
    /\ concurrency = 2
    /\ Len(results) = 3
    /\ results[1].file = files[2]
    /\ results[2].file = files[1]
    /\ results[3].file = files[3]

\* ----------------------------------------------------------------------- C32
\* C32: a BatchProcessor built without a concurrency, or with concurrency 0,
\* has concurrency 1 (2 halves) and its groups hold one item each, the items in
\* order, as many groups as items once createBatches has returned; its
\* continueOnError is false only when the option is the value false.
C32_Defaults ==
    cfgPc \in {"createBatches", "launch"} =>
        /\ (~optGiven \/ optConcurrency = 0) =>
              /\ cfgConcurrency = 2
              /\ \A g \in 1..Len(cfgBatches) : cfgBatches[g] = <<cfgItems[g]>>
              /\ cfgPc = "launch" => Len(cfgBatches) = Len(cfgItems)
        /\ cfgContinueOnError = (optContinueOnError # "false")

C32_Witness ==
    /\ ~optGiven
    /\ optContinueOnError = "undefined"
    /\ cfgContinueOnError
    /\ cfgPc = "launch"
    /\ Len(cfgBatches) = 3

\* ----------------------------------------------------------------------- C33
\* Every external invocation of a job eventually returns or fails, every file
\* system operation of processFiles eventually settles, and the event loop runs
\* the continuations that are ready.
Fairness ==
    /\ WF_vars(Mkdir)
    /\ WF_vars(LaunchBatch)
    /\ WF_vars(CallSaveReport)
    /\ WF_vars(WriteReport)
    /\ WF_vars(WriteSummary)
    /\ \A j \in 1..MaxFiles : WF_vars(j \in Jobs /\ JobStep(j))

SpecFair == Init /\ [][Next]_vars /\ Fairness

\* C33: processFiles eventually completes, by returning or by failing towards
\* its caller, and no job is launched twice: a job is launched from idle only
\* and never becomes idle again.
C33_Terminates ==
    /\ <>(pc \in {"returned", "rejected"})
    /\ [][\A j \in Jobs :
             /\ stage[j] # "idle" => stage'[j] # "idle"
             /\ (stage'[j] = "probe" /\ stage[j] # "probe") => stage[j] = "idle"]_vars

\* processFiles has returned after running two groups.
C33_Witness ==
    /\ pc = "returned"
    /\ Len(files) = 4
    /\ concurrency = 2
    /\ batchIndex = 2
    /\ \A j \in Jobs : Terminal(j)

\* ----------------------------------------------------------------------- C37
\* The returned object has a duration and it is a number.
HasDuration(value) == "duration" \in DOMAIN value /\ value.duration = "number"

\* C37: every value processFiles returns, and every value processDirectory
\* returns for a root that is a directory, has results, errors and a numeric
\* duration.
C37_SameShape ==
    root \in {"unused", "nomatch", "files"} =>
        /\ \A k \in 1..Len(returned) :
              {"results", "errors"} \subseteq DOMAIN returned[k] /\ HasDuration(returned[k])
        /\ \A k \in 1..Len(dirReturned) :
              /\ {"results", "errors"} \subseteq DOMAIN dirReturned[k]
              /\ HasDuration(dirReturned[k])

\* ----------------------------------------------------------------------- C36
\* C36: for a request that carries an upload, fs.unlink is called on the upload
\* at most once, it has been called once when the response is sent, and the
\* response is the one the upload and the tools call for whether the removal
\* works or not.
C36_UploadDeletedOnce ==
    reqFile =>
        /\ unlinks <= 1
        /\ response # <<>> => (unlinks = 1 /\ response = <<ExpectedResponse>>)

\* ----------------------------------------------------------------------- C34
\* C34: the command of every request is built with the model and the language
\* that request asked for.
C34_OwnSettings ==
    \A r \in Requests : commandArgs[r] # NoCommand => commandArgs[r] = reqOptions[r]

\* ----------------------------------------------------------------------- C35
\* C35: after every connection, register message and close, every key of
\* wsClients maps to an open socket, and a register message of one socket leaves
\* the entries of every other open socket as they were.
C35_OnlyOpenSockets ==
    [][/\ \A k \in Keys : wsClients'[k] # 0 => sockState'[wsClients'[k]] = "open"
       /\ \A i \in Sockets, key \in Keys :
            Register(i, key) =>
                \A j \in Sockets \ {i}, q \in Keys :
                    (wsClients[q] = j /\ sockState[j] = "open") => wsClients'[q] = j
      ]_vars

\* ----------------------------------------------------------------------- C38
\* How often a path is the file of an entry of an array, or an element of a list.
RECURSIVE CountFile(_, _)
CountFile(array, path) ==
    IF array = <<>> THEN 0
    ELSE (IF Head(array).file = path THEN 1 ELSE 0) + CountFile(Tail(array), path)

RECURSIVE CountPath(_, _)
CountPath(list, path) ==
    IF list = <<>> THEN 0
    ELSE (IF Head(list) = path THEN 1 ELSE 0) + CountPath(Tail(list), path)

\* C38: transcribeBatch returns { results, errors } for every list of N paths,
\* with len(results) + len(errors) = N; every path has as many entries in
\* results and errors together as the list names it, so a path the list names
\* once is in exactly one of the two; and whatever the outcomes of the paths
\* before it, every path of the list is taken up: the entries so far are as
\* many as the paths the loop has finished, and it returns only after the last.
C38_EveryPathAccounted ==
    /\ seqPc \in {"loop", "await", "returned"}
    /\ Len(seqResults) + Len(seqErrors) = seqIndex
    /\ seqPc = "loop" /\ seqIndex < Len(audioPaths) => ENABLED SeqStart
    /\ seqPc = "returned" =>
        /\ seqReturn = [results |-> seqResults, errors |-> seqErrors]
        /\ Len(seqReturn.results) + Len(seqReturn.errors) = Len(audioPaths)
        /\ \A path \in PathNames :
            /\ CountFile(seqReturn.results, path) + CountFile(seqReturn.errors, path)
                 = CountPath(audioPaths, path)
            /\ CountPath(audioPaths, path) = 1 =>
                 (CountFile(seqReturn.results, path) = 1)
                    # (CountFile(seqReturn.errors, path) = 1)

\* Three paths, the first fails, the second null result is caught, the third
\* succeeds, and transcribeBatch has returned.
C38_Witness ==
    /\ seqPc = "returned"
    /\ Len(audioPaths) = 3
    /\ audioPaths[1] # audioPaths[3]
    /\ Len(seqErrors) = 2
    /\ seqErrors[1].file = audioPaths[1]
    /\ seqErrors[1].error = "Transcription error"
    /\ seqErrors[2].error = "TypeError"
    /\ Len(seqResults) = 1
    /\ seqResults[1].file = audioPaths[3]

\* ----------------------------------------------------------------------- C39
\* C39: at most one transcription is in flight; the transcription of a path
\* starts only when every path before it has its entry and none is in flight;
\* and every entry is appended, for the path the loop is at, to the end of
\* results or of errors, so both list their paths in input order.
C39_StrictlySequential ==
    [][/\ Cardinality(seqInFlight') <= 1
       /\ \A i \in 1..MaxPaths :
            (i \in seqInFlight' /\ i \notin seqInFlight) =>
                /\ seqInFlight = {}
                /\ i = seqIndex + 1
                /\ Len(seqResults) + Len(seqErrors) = i - 1
       /\ seqResults' # seqResults =>
            /\ seqInFlight = {seqIndex + 1}
            /\ seqResults' = Append(seqResults, seqResults'[Len(seqResults')])
            /\ seqResults'[Len(seqResults')].file = audioPaths[seqIndex + 1]
            /\ seqErrors' = seqErrors
       /\ seqErrors' # seqErrors =>
            /\ seqInFlight = {seqIndex + 1}
            /\ seqErrors' = Append(seqErrors, seqErrors'[Len(seqErrors')])
            /\ seqErrors'[Len(seqErrors')].file = audioPaths[seqIndex + 1]
            /\ seqResults' = seqResults
      ]_vars

\* Three paths: the first and third succeeded, the second failed, and the third
\* is the only one in flight just before.
C39_Witness ==
    /\ seqPc = "returned"
    /\ audioPaths = <<"a.mp3", "b.mp3", "a.mp3">>
    /\ Len(seqResults) = 2
    /\ seqResults[1].transcript = "text"
    /\ seqResults[2].transcript = "object"
    /\ Len(seqErrors) = 1
    /\ seqErrors[1].file = "b.mp3"
    /\ seqInFlight = {}

====
